---- MODULE Spec2Model ----
(***************************************************************************)
(* A model of the Rust port of Sparta (facebook/redex, sparta/rust):      *)
(*   - wpo.rs: construction of the weak partial ordering of a graph,      *)
(*   - fixpoint_iter.rs: the monotonic fixpoint iterator driven by it.    *)
(* WpoIdx, DFNs and vector indices are 0-based as in the source; vectors  *)
(* are functions over 0..len-1 unless noted.                               *)
(***************************************************************************)
EXTENDS Integers, Sequences, FiniteSets, TLC

(***************************************************************************)
(* Bounds of the model.                                                    *)
(***************************************************************************)
\* number of nodes of an enumerated graph (node ids 1..MaxNodes, entry 1)
MaxNodes == 3
\* number of edges of an enumerated graph
MaxEdges == 4
\* integers of the IntegerSet test domain are 0..MaxVal
MaxVal == 3
\* cap on the per-node iteration counters of one run
MaxIter == 6
\* keys of the Patricia trees and variables of the environments are 0..MaxKey
MaxKey == 2
\* variables of the environments and labels of the partitions under the
\* lattice operations are 0..MaxVariable
MaxVariable == 1
\* elements of the sets of the PowersetLattice domain are 0..MaxElement
MaxElement == 1
(***************************************************************************)
(* Small helpers on sequences, sets and hash maps (functions whose DOMAIN  *)
(* is the key set).                                                        *)
(***************************************************************************)
Range(s) == {s[i] : i \in DOMAIN s}

Min(S) == CHOOSE x \in S : \A y \in S : x <= y

Max(S) == CHOOSE x \in S : \A y \in S : x >= y

RECURSIVE SetToSeq(_)
SetToSeq(S) == IF S = {} THEN <<>> ELSE <<Min(S)>> \o SetToSeq(S \ {Min(S)})

Reverse(s) == [i \in 1..Len(s) |-> s[Len(s) + 1 - i]]

EmptyMap == [k \in {} |-> 0]

MapGetOr(m, k, d) == IF k \in DOMAIN m THEN m[k] ELSE d

MapPut(m, k, v) == [x \in DOMAIN m \cup {k} |-> IF x = k THEN v ELSE m[x]]

\* Vec::push on a 0-based vector
VecPush(vec, x) ==
    LET n == Cardinality(DOMAIN vec)
    IN  [i \in 0..n |-> IF i < n THEN vec[i] ELSE x]

VecLen(vec) == Cardinality(DOMAIN vec)

(***************************************************************************)
(* Graph view (graph.rs).  A graph is [size, succs]: succs[n] is the       *)
(* sequence of successor nodes of n in the order the view returns them.    *)
(* An edge id is the pair <<source, target>>.                              *)
(***************************************************************************)
GraphEntry == 1

get_succ_nodes(g, n) == g.succs[n]

\* predecessors(n): the edges whose target is n
predecessors(g, n) ==
    LET RECURSIVE Collect(_)
        Collect(s) ==
            IF s > g.size THEN <<>>
            ELSE SelectSeq([i \in 1..Len(g.succs[s]) |-> <<s, g.succs[s][i]>>],
                           LAMBDA e : e[2] = n) \o Collect(s + 1)
    IN  Collect(1)

source(e) == e[1]

target(e) == e[2]

(***************************************************************************)
(* petgraph::unionfind::UnionFind as used by wpo.rs: parent and rank       *)
(* vectors, union by rank.  Path compression (find_mut) does not change    *)
(* any representative and is left out.                                     *)
(***************************************************************************)
UfNew(n) == [parent |-> [i \in 0..(n - 1) |-> i], rank |-> [i \in 0..(n - 1) |-> 0]]

RECURSIVE UfFind(_, _)
UfFind(uf, x) == IF uf.parent[x] = x THEN x ELSE UfFind(uf, uf.parent[x])

UfUnion(uf, x, y) ==
    LET xrep == UfFind(uf, x)
        yrep == UfFind(uf, y)
    IN  IF xrep = yrep THEN uf
        ELSE IF uf.rank[xrep] < uf.rank[yrep]
             THEN [uf EXCEPT !.parent[xrep] = yrep]
        ELSE IF uf.rank[xrep] > uf.rank[yrep]
             THEN [uf EXCEPT !.parent[yrep] = xrep]
        ELSE [uf EXCEPT !.parent[yrep] = xrep, !.rank[xrep] = @ + 1]

(***************************************************************************)
(* WpoNode / WeakPartialOrderingImpl (wpo.rs).                             *)
(***************************************************************************)
WpoNode_new(ty, node, size) ==
    [ty |-> ty, node |-> node, size |-> size,
     successors |-> {}, predessors |-> {}, num_outer_preds |-> EmptyMap]

\* WeakPartialOrderingImpl::new for a graph of `size` nodes.  HashMaps keyed
\* by a node or a DFN are total functions with the source's default
\* (0, false, empty vector) for an absent key; ancestor and parent, which
\* the source unwraps, use -1 for an absent key.
WeakPartialOrderingImpl_new(size) ==
    [next_dfn        |-> 1,
     nodes           |-> <<>>,
     toplevel        |-> <<>>,
     post_dfn        |-> [n \in 1..size |-> 0],
     dfn             |-> [n \in 1..size |-> 0],
     dfn_to_node     |-> <<>>,
     cross_fwd_edges |-> [d \in 0..size |-> <<>>],
     back_preds      |-> [d \in 0..size |-> <<>>],
     non_back_preds  |-> [d \in 0..size |-> <<>>],
     dfn_to_wpo_idx  |-> <<>>,
     next_idx        |-> 0,
     panic           |-> FALSE,
     hang            |-> FALSE]

\* the successor loop of build_auxilary, over successors.iter().rev()
RECURSIVE ScanSuccs(_, _, _, _)
ScanSuccs(a, vertex, successors, i) ==
    IF i = 0 THEN a
    ELSE LET succ_node == successors[i]
             succ == a.impl.dfn[succ_node]
             b == IF succ = 0
                  THEN [a EXCEPT !.stack = Append(@, <<succ_node, FALSE, vertex>>)]
                  ELSE IF a.visited[succ]
                  THEN LET lca == a.ancestor[UfFind(a.dft_dsets, succ)]
                       IN  IF lca < 0
                           THEN [a EXCEPT !.impl.panic = TRUE]
                           ELSE [a EXCEPT !.impl.cross_fwd_edges[lca] =
                                              Append(@, <<vertex, succ>>)]
                  ELSE [a EXCEPT !.impl.back_preds[succ] = Append(@, vertex)]
         IN  ScanSuccs(b, vertex, successors, i - 1)

\* the while loop of build_auxilary: one stack entry per call
RECURSIVE DfsLoop(_, _)
DfsLoop(a, g) ==
    IF a.stack = <<>> THEN a
    ELSE
      LET top == a.stack[Len(a.stack)]
          node == top[1]
          finished == top[2]
          pred == top[3]
          popped == [a EXCEPT !.stack = SubSeq(@, 1, Len(@) - 1)]
      IN  IF finished
          THEN LET vertex == popped.impl.dfn[node]
                   uf == UfUnion(popped.dft_dsets, vertex, pred)
               IN  DfsLoop([popped EXCEPT
                               !.impl.post_dfn[node] = popped.next_post_dfn,
                               !.next_post_dfn = @ + 1,
                               !.visited[vertex] = TRUE,
                               !.dft_dsets = uf,
                               !.ancestor[UfFind(uf, pred)] = pred], g)
          ELSE IF popped.impl.dfn[node] # 0
          THEN DfsLoop(popped, g)
          ELSE LET vertex == popped.impl.next_dfn
                   b == [popped EXCEPT
                            !.impl.next_dfn = @ + 1,
                            !.impl.dfn_to_node = Append(@, node),
                            !.impl.dfn[node] = vertex,
                            !.ancestor[vertex] = vertex,
                            !.stack = Append(@, <<node, TRUE, pred>>)]
                   c == ScanSuccs(b, vertex, get_succ_nodes(g, node),
                                  Len(get_succ_nodes(g, node)))
               IN  DfsLoop(IF pred # 0
                           THEN [c EXCEPT !.impl.non_back_preds[vertex] = Append(@, pred)]
                           ELSE c, g)

\* build_auxilary: DFS numbering, edge classification, lowest common
\* ancestors of cross/forward edges; returns the builder
build_auxilary(impl, size, root, g) ==
    LET a == DfsLoop([impl          |-> impl,
                      dft_dsets     |-> UfNew(size + 1),
                      stack         |-> << <<root, FALSE, 0>> >>,
                      next_post_dfn |-> 1,
                      visited       |-> [d \in 0..size |-> FALSE],
                      ancestor      |-> [d \in 0..size |-> -1]], g)
    IN  IF a.impl.next_dfn <= size + 1 THEN a.impl
        ELSE [a.impl EXCEPT !.panic = TRUE]

index_of(impl, dfn_i) == impl.dfn_to_wpo_idx[dfn_i]

\* dfn_to_node is kept as a 1-based sequence, so dfn_to_node[vertex] is the
\* source's dfn_to_node[vertex - 1]
add_node(impl, dfn_i, vertex, sz, ty) ==
    [impl EXCEPT !.dfn_to_wpo_idx[dfn_i] = impl.next_idx,
                 !.next_idx = @ + 1,
                 !.nodes = VecPush(@, WpoNode_new(ty, impl.dfn_to_node[vertex], sz))]

\* b is the state of build(): the builder b.impl and build's locals;
\* for_outer_preds is the local vector the source passes by reference
add_successor(b, from, to, exit, outer_pred) ==
    LET from_idx == index_of(b.impl, from)
        to_idx == index_of(b.impl, to)
    IN  IF to_idx \in b.impl.nodes[from_idx].successors THEN b
        ELSE [b EXCEPT
                 !.for_outer_preds =
                     IF outer_pred THEN Append(@, <<to_idx, index_of(b.impl, exit)>>) ELSE @,
                 !.impl.nodes[from_idx].successors = @ \cup {to_idx},
                 !.impl.nodes[to_idx].predessors = @ \cup {from_idx}]

\* "Restore cross/forward edges" whose lowest common ancestor is h
RECURSIVE RestoreEdges(_, _, _)
RestoreEdges(b, edges, i) ==
    IF i > Len(edges) THEN b
    ELSE LET u == edges[i][1]
             v == edges[i][2]
             rep_v == b.rep[UfFind(b.dsets, v)]
         IN  RestoreEdges([b EXCEPT !.impl.non_back_preds[rep_v] = Append(@, u),
                                    !.origin[rep_v] = Append(@, <<u, v>>)],
                          edges, i + 1)

\* backpreds_h: representatives of the back predecessors of h other than h
BackPredsH(b, h) ==
    {b.rep[UfFind(b.dsets, v)] : v \in {w \in Range(b.impl.back_preds[h]) : w # h}}

\* a self loop alone not taken to make a component
IsSccWithoutSelfLoop(b, h) == BackPredsH(b, h) # {}

\* is_scc: h has a self loop or a back predecessor
IsScc(b, h) == h \in Range(b.impl.back_preds[h]) \/ BackPredsH(b, h) # {}

\* nested_sccs_h: the worklist closure of backpreds_h under non_back_preds
RECURSIVE NestedSccsH(_, _, _, _)
NestedSccsH(b, h, nested_sccs_h, worklist_h) ==
    IF worklist_h = {} THEN nested_sccs_h
    ELSE LET v == Min(worklist_h)
             fresh == {b.rep[UfFind(b.dsets, p)] : p \in Range(b.impl.non_back_preds[v])}
                          \ (nested_sccs_h \cup {h})
         IN  NestedSccsH(b, h, nested_sccs_h \cup fresh, (worklist_h \ {v}) \cup fresh)

RECURSIVE SumSizes(_, _)
SumSizes(components_sizes, S) ==
    IF S = {} THEN 0
    ELSE components_sizes[Min(S)] + SumSizes(components_sizes, S \ {Min(S)})

\* the exit of a component left without the edges from its back predecessors
ExitEdgesDropped(b, backpreds_h, x_h) == b

\* the exit of a component scheduled after its head only, as for a
\* component without back predecessors
ExitEdgesFromHead(b, backpreds_h, x_h) ==
    LET h == CHOOSE d \in DOMAIN b.impl.dfn_to_wpo_idx :
                 index_of(b.impl, d) = index_of(b.impl, x_h) + 1
    IN  add_successor(b, h, x_h, x_h, FALSE)

\* "Scheduling constraints from h to x_h": exit[p] -> x_h for each p in backpreds_h
RECURSIVE ExitEdges(_, _, _)
ExitEdges(b, backpreds_h, x_h) ==
    IF backpreds_h = {} THEN b
    ELSE LET p == Min(backpreds_h)
         IN  ExitEdges(add_successor(b, b.exit[p], x_h, x_h, FALSE), backpreds_h \ {p}, x_h)

\* the scheduling edges of origin[v]: from the exit of the component of u to vv
RECURSIVE OriginEdges(_, _, _)
OriginEdges(b, v, i) ==
    IF i > Len(b.origin[v]) THEN b
    ELSE LET u == b.origin[v][i][1]
             vv == b.origin[v][i][2]
             x_u == b.exit[b.rep[UfFind(b.dsets, u)]]
             x_v == b.exit[v]
         IN  OriginEdges(add_successor(b, x_u, vv, x_v, x_v # v), v, i + 1)

\* "Scheduling constraints between WPOs for nested SCCs"
RECURSIVE NestedEdges(_, _)
NestedEdges(b, nested_sccs_h) ==
    IF nested_sccs_h = {} THEN b
    ELSE LET v == Min(nested_sccs_h)
         IN  NestedEdges(OriginEdges(b, v, 1), nested_sccs_h \ {v})

\* "Merging all reps in nested SCCs to h"
RECURSIVE MergeNested(_, _, _)
MergeNested(b, nested_sccs_h, h) ==
    IF nested_sccs_h = {} THEN b
    ELSE LET v == Min(nested_sccs_h)
             uf == UfUnion(b.dsets, v, h)
         IN  MergeNested([b EXCEPT !.dsets = uf,
                                   !.rep[UfFind(uf, v)] = h,
                                   !.parent = MapPut(@, index_of(b.impl, v), index_of(b.impl, h))],
                         nested_sccs_h \ {v}, h)

\* the pair pushed in the wrong order: the Head first, its Exit after it
AddHeadThenExit(impl, x_h, h, sz_h) ==
    add_node(add_node(impl, h, h, sz_h, "Head"), x_h, h, sz_h, "Exit")

\* the two add_node calls of a component: its Exit, then its Head
AddExitThenHead(impl, x_h, h, sz_h) ==
    add_node(add_node(impl, x_h, h, sz_h, "Exit"), h, h, sz_h, "Head")

\* one iteration of "for h in (1..next_dfn).rev()"
BuildComponent(b0, h) ==
    LET b == RestoreEdges(b0, b0.impl.cross_fwd_edges[h], 1)
        backpreds_h == BackPredsH(b, h)
        nested_sccs_h == NestedSccsH(b, h, backpreds_h, backpreds_h)
    IN  IF ~IsScc(b, h)
        THEN [b EXCEPT !.components_sizes[h] = 1,
                       !.impl = add_node(@, h, h, 1, "Plain")]
        ELSE LET sz_h == 2 + SumSizes(b.components_sizes, nested_sccs_h)
                 x_h == b.exit_next_dfn
                 b1 == [b EXCEPT !.components_sizes[h] = sz_h,
                                 !.exit_next_dfn = @ + 1,
                                 !.impl = AddExitThenHead(@, x_h, h, sz_h)]
                 b2 == IF backpreds_h = {}
                       THEN add_successor(b1, h, x_h, x_h, FALSE)
                       ELSE ExitEdges(b1, backpreds_h, x_h)
                 b3 == NestedEdges(b2, nested_sccs_h)
                 b4 == MergeNested(b3, nested_sccs_h, h)
             IN  [b4 EXCEPT !.exit[h] = x_h]

RECURSIVE ComponentsLoop(_, _)
ComponentsLoop(b, h) == IF h < 1 THEN b ELSE ComponentsLoop(BuildComponent(b, h), h - 1)

\* "Scheduling constraints between WPOs for maximal SCCs"
RECURSIVE ToplevelLoop(_, _)
ToplevelLoop(b, v) ==
    IF v >= b.impl.next_dfn THEN b
    ELSE IF b.rep[UfFind(b.dsets, v)] = v
    THEN LET v_idx == index_of(b.impl, v)
             b1 == [b EXCEPT !.impl.toplevel = Append(@, v_idx),
                             !.parent = MapPut(@, v_idx, v_idx)]
         IN  ToplevelLoop(OriginEdges(b1, v, 1), v + 1)
    ELSE ToplevelLoop(b, v + 1)

inc_num_outer_preds(b, x, idx) ==
    IF b.impl.nodes[x].ty # "Exit" THEN [b EXCEPT !.impl.panic = TRUE]
    ELSE [b EXCEPT !.impl.nodes[x].num_outer_preds =
                       MapPut(@, idx, MapGetOr(@, idx, 0) + 1)]

\* the walk stopped at the innermost exit, the enclosing exits left uncounted
OuterPredsWalkInnermost(b, v, x_max, h, fuel) ==
    IF h < 1 THEN [b EXCEPT !.impl.panic = TRUE] ELSE inc_num_outer_preds(b, h - 1, v)

\* the while loop of "Compute num_outer_preds" for one (v, x_max), from head h;
\* fuel bounds the walk: the source loops forever when x_max is not on the
\* parent chain
RECURSIVE OuterPredsWalk(_, _, _, _, _)
OuterPredsWalk(b, v, x_max, h, fuel) ==
    IF h < 1 THEN [b EXCEPT !.impl.panic = TRUE]
    ELSE LET x == h - 1
             b1 == inc_num_outer_preds(b, x, v)
         IN  IF x = x_max \/ b1.impl.panic THEN b1
             ELSE IF fuel = 0 THEN [b1 EXCEPT !.impl.hang = TRUE]
             ELSE OuterPredsWalk(b1, v, x_max, MapGetOr(b.parent, h, -1), fuel - 1)

RECURSIVE OuterPredsLoop(_, _)
OuterPredsLoop(b, i) ==
    IF i > Len(b.for_outer_preds) \/ b.impl.panic \/ b.impl.hang THEN b
    ELSE LET v == b.for_outer_preds[i][1]
             x_max == b.for_outer_preds[i][2]
             h == IF b.impl.nodes[v].ty = "Head" THEN v ELSE MapGetOr(b.parent, v, -1)
         IN  OuterPredsLoop(OuterPredsWalk(b, v, x_max, h, VecLen(b.impl.nodes)), i + 1)

\* the WeakPartialOrdering a builder is turned into
WeakPartialOrdering_of(impl) ==
    [nodes |-> impl.nodes, toplevel |-> impl.toplevel, post_dfn |-> impl.post_dfn,
     panic |-> impl.panic, hang |-> impl.hang]

build(impl0, size, root, g) ==
    LET impl == build_auxilary(impl0, size, root, g)
        n == impl.next_dfn
        b0 == [impl             |-> [impl EXCEPT !.dfn_to_wpo_idx =
                                        [d \in 0..(2 * n - 1) |-> 0]],
               dsets            |-> UfNew(n),
               exit_next_dfn    |-> n,
               rep              |-> [d \in 0..(n - 1) |-> d],
               exit             |-> [d \in 0..(n - 1) |-> d],
               origin           |-> [v \in 0..(n - 1) |->
                                        [i \in 1..Len(impl.non_back_preds[v]) |->
                                            <<impl.non_back_preds[v][i], v>>]],
               for_outer_preds  |-> <<>>,
               components_sizes |-> [d \in 0..(n - 1) |-> 0],
               parent           |-> EmptyMap]
    IN  IF impl.panic THEN WeakPartialOrdering_of(impl)
        ELSE WeakPartialOrdering_of(
                 OuterPredsLoop(ToplevelLoop(ComponentsLoop(b0, n - 1), 1), 1).impl)

\* WeakPartialOrdering::new
WeakPartialOrdering_new(root, size, g) ==
    IF get_succ_nodes(g, root) = <<>>
    THEN [nodes |-> VecPush(<<>>, WpoNode_new("Plain", root, 1)),
          toplevel |-> <<0>>,
          post_dfn |-> [n \in 1..size |-> IF n = root THEN 1 ELSE 0],
          panic |-> FALSE, hang |-> FALSE]
    ELSE build(WeakPartialOrderingImpl_new(size), size, root, g)

(***************************************************************************)
(* The read API of WeakPartialOrdering.                                    *)
(***************************************************************************)
size(wpo) == VecLen(wpo.nodes)

\* the entry taken to be the first vertex of the vector
get_entry_first(wpo) == 0

get_entry(wpo) == VecLen(wpo.nodes) - 1

get_successors(wpo, idx) == wpo.nodes[idx].successors

get_predecessors(wpo, idx) == wpo.nodes[idx].predessors

get_num_preds(wpo, idx) == Cardinality(wpo.nodes[idx].predessors)

get_num_outer_preds(wpo, exit) == wpo.nodes[exit].num_outer_preds

get_head_of_exit(exit) == exit + 1

get_exit_of_head(head) == head - 1

get_node(wpo, idx) == wpo.nodes[idx].node

is_plain(wpo, idx) == wpo.nodes[idx].ty = "Plain"

is_head(wpo, idx) == wpo.nodes[idx].ty = "Head"

is_exit(wpo, idx) == wpo.nodes[idx].ty = "Exit"

get_post_dfn(wpo, n) == wpo.post_dfn[n]

\* the comparison of post-order numbers made non-strict
is_from_outside_or_equal(wpo, head, pred) == get_post_dfn(wpo, head) <= get_post_dfn(wpo, pred)

is_from_outside(wpo, head, pred) == get_post_dfn(wpo, head) < get_post_dfn(wpo, pred)

(***************************************************************************)
(* The graphs of the test suite (wpo_test.rs), successors in the order     *)
(* SimpleGraph returns them (by edge id, i.e. in add_edge order).          *)
(***************************************************************************)
MkGraph(n, succs) == [size |-> n, succs |-> [x \in 1..n |-> MapGetOr(succs, x, <<>>)]]

\* test_wpo_example_from_wto_paper
GraphWtoPaper ==
    MkGraph(8, <<  <<2>>, <<3, 8>>, <<4>>, <<5, 7>>, <<6>>, <<7, 5>>, <<8, 3>>, <<>> >>)

\* test_wpo_example_from_wpo_paper_irreducible
GraphIrreducible ==
    MkGraph(6, << <<2, 6>>, <<3, 5>>, <<2, 4>>, <<3>>, <<4>>, <<4>> >>)

\* test_wpo_handle_outer_preds3
GraphOuterPreds3 ==
    MkGraph(8, << <<2, 8>>, <<3>>, <<4>>, <<5>>, <<6, 3>>, <<7, 2>>, <<1>>, <<4>> >>)

\* test_wpo_handle_nested_loops_with_branch
GraphNestedBranch ==
    MkGraph(5, << <<2, 4>>, <<3>>, <<2, 5>>, <<5>>, <<1>> >>)

\* the graphs the model enumerates: every set of at most MaxEdges edges over
\* the nodes 1..MaxNodes, successors in ascending order
AllEdges == (1..MaxNodes) \X (1..MaxNodes)

RECURSIVE EdgeSets(_)
EdgeSets(k) ==
    IF k = 0 THEN {{}}
    ELSE LET smaller == EdgeSets(k - 1)
         IN  smaller \cup {S \cup {e} : S \in smaller, e \in AllEdges}

GraphOfEdges(E) ==
    [size |-> MaxNodes,
     succs |-> [n \in 1..MaxNodes |-> SetToSeq({t \in 1..MaxNodes : <<n, t>> \in E})]]

\* an inner loop (3) that an outer loop (2) enters again with a larger state:
\* 1 -> 2, 2 -> 3, 2 -> 5, 3 -> 3, 3 -> 4, 5 -> 4, 4 -> 2
GraphNestedReentry ==
    MkGraph(5, << <<2>>, <<3, 5>>, <<3, 4>>, <<2>>, <<4>> >>)

\* an inner loop (3, 4, 5) with a second entry (6 -> 5) inside an outer loop
\* (2) that node 4 closes: 1 -> 2, 2 -> 3, 2 -> 6, 3 -> 4, 4 -> 5, 4 -> 2,
\* 5 -> 3, 6 -> 5
GraphSecondEntry ==
    MkGraph(6, << <<2>>, <<3, 6>>, <<4>>, <<5, 2>>, <<3>>, <<5>> >>)

TestGraphs ==
    {GraphWtoPaper, GraphIrreducible, GraphOuterPreds3, GraphNestedBranch,
     GraphNestedReentry, GraphSecondEntry}

Graphs == {GraphOfEdges(E) : E \in EdgeSets(MaxEdges)} \cup TestGraphs

Nodes(g) == 1..g.size

\* nodes reachable from the entry along successor edges
RECURSIVE ReachFrom(_, _)
ReachFrom(g, S) ==
    LET T == S \cup UNION {Range(g.succs[n]) : n \in S}
    IN  IF T = S THEN S ELSE ReachFrom(g, T)

Reachable(g) == ReachFrom(g, {GraphEntry})

(***************************************************************************)
(* The abstract domain of the iterator's tests (fixpoint_iter_test.rs,     *)
(* IntegerSetAbstractDomain): Top, or Value(set) with the empty set as     *)
(* bottom.  A value is [top, set]; set is {} when top.                     *)
(***************************************************************************)
Vals == 0..MaxVal

Top == [top |-> TRUE, set |-> {}]

Value(S) == [top |-> FALSE, set |-> S]

bottom == Value({})

Domain == {Top} \cup {Value(S) : S \in SUBSET Vals}

leq(lhs, rhs) ==
    IF rhs.top THEN TRUE
    ELSE IF lhs.top THEN FALSE
    ELSE IF lhs.set = {} THEN TRUE
    ELSE IF rhs.set = {} THEN FALSE
    ELSE lhs.set \subseteq rhs.set

\* join_with, widen_with: the value of self after the call
join_with(self, rhs) ==
    IF self.top THEN self
    ELSE IF rhs.top THEN Top
    ELSE IF rhs.set = {} THEN self
    ELSE IF self.set = {} THEN Value(rhs.set)
    ELSE Value(self.set \cup rhs.set)

widen_with(self, rhs) ==
    IF self.top THEN self
    ELSE IF rhs.top THEN Top
    ELSE IF rhs.set \subseteq self.set THEN self
    ELSE Top

\* meet_with and narrow_with of this domain leave self as it is
meet_with(self, rhs) == self

narrow_with(self, rhs) == self

\* IntegerSetAbstractDomain::add(lhs, Value({rhs})); integers wrap at MaxVal
add(lhs, rhs) ==
    IF lhs.top THEN Top
    ELSE IF lhs.set = {} THEN bottom
    ELSE Value({(x + rhs) % (MaxVal + 1) : x \in lhs.set})

(***************************************************************************)
(* The transformer (IntegerSetTransformer over a one-variable program):    *)
(* the block of node n is "x = x + prog[n]" when prog[n] > 0, the empty    *)
(* block when prog[n] = 0, and "x = c" when prog[n] = Assignment(c).       *)
(***************************************************************************)
\* Statement::Assignment { var: x, value }
Assignment(value) == 0 - (value + 1)

\* Statement::Addition { result: x, lhs: x, rhs }
Addition(rhs) == rhs

\* env.set(x, Value({value})) leaves the bottom environment as it is
analyze_node(p, n, current_state) ==
    IF p[n] > 0 THEN add(current_state, p[n])
    ELSE IF p[n] < 0
    THEN (IF current_state = bottom THEN current_state ELSE Value({0 - p[n] - 1}))
    ELSE current_state

analyze_edge(e, exit_state_at_src) == exit_state_at_src

\* the program that makes the inner loop of GraphNestedReentry stabilize and
\* then change again: node 3 is "x = x + 2", node 5 is "x = x + 1"
ProgramNestedReentry == [n \in 1..5 |-> IF n = 3 THEN 2 ELSE IF n = 5 THEN 1 ELSE 0]

\* the program that makes the inner loop of GraphSecondEntry change through
\* its second entry after the outer loop has changed: node 4 is "x = 1",
\* node 6 is "x = x + 1"
ProgramSecondEntry ==
    [n \in 1..6 |-> IF n = 4 THEN Assignment(1) ELSE IF n = 6 THEN Addition(1) ELSE 0]

\* the programs run on graph g: no addition, one "x = x + 1" block, every
\* block "x = x + 1"
Programs(g) ==
    {[n \in Nodes(g) |-> 0], [n \in Nodes(g) |-> 1]}
        \cup {[n \in Nodes(g) |-> IF n = k THEN 1 ELSE 0] : k \in 1..MaxNodes}
        \cup (IF g = GraphNestedReentry THEN {ProgramNestedReentry} ELSE {})
        \cup (IF g = GraphSecondEntry THEN {ProgramSecondEntry} ELSE {})

InitValues == {bottom, Value({0})}

(***************************************************************************)
(* MonotonicFixpointIteratorContext.                                       *)
(***************************************************************************)
Context_new(init_value) ==
    [init_value |-> init_value, local_iterations |-> EmptyMap,
     global_iterations |-> EmptyMap]

get_local_iterations_for(context, n) == MapGetOr(context.local_iterations, n, 0)

get_global_iterations_for(context, n) == MapGetOr(context.global_iterations, n, 0)

increase_iteration_count(n, table) == MapPut(table, n, MapGetOr(table, n, 0) + 1)

increase_iteration_count_for(context, n) ==
    [context EXCEPT !.local_iterations = increase_iteration_count(n, @),
                    !.global_iterations = increase_iteration_count(n, @)]

reset_local_iteration_count_for(context, n) ==
    [context EXCEPT !.local_iterations = MapPut(@, n, 0)]

(***************************************************************************)
(* MonotonicFixpointIterator: the pure parts.                              *)
(***************************************************************************)
get_state_at_or_bottom(states, n) == IF n \in DOMAIN states THEN states[n] ELSE bottom

\* the clear() that leaves the map as it is
clear_kept(states) == states

\* clear(): what entry_states.clear() / exit_states.clear() leave of a map
clear(states) == EmptyMap

\* the loop over the predecessor edges started at the second edge
compute_entry_state_skip_first(g, exit_states_, context_, n, entry_state) ==
    LET preds == predecessors(g, n)
        RECURSIVE JoinPreds(_, _)
        JoinPreds(acc, i) ==
            IF i > Len(preds) THEN acc
            ELSE JoinPreds(join_with(acc,
                               analyze_edge(preds[i],
                                   get_state_at_or_bottom(exit_states_, source(preds[i])))),
                           i + 1)
    IN  JoinPreds(IF n = GraphEntry THEN join_with(entry_state, context_.init_value)
                  ELSE entry_state, 2)

\* the value of *entry_state after compute_entry_state
compute_entry_state(g, exit_states_, context_, n, entry_state) ==
    LET preds == predecessors(g, n)
        RECURSIVE JoinPreds(_, _)
        JoinPreds(acc, i) ==
            IF i > Len(preds) THEN acc
            ELSE JoinPreds(join_with(acc,
                               analyze_edge(preds[i],
                                   get_state_at_or_bottom(exit_states_, source(preds[i])))),
                           i + 1)
    IN  JoinPreds(IF n = GraphEntry THEN join_with(entry_state, context_.init_value)
                  ELSE entry_state, 1)

\* the entry state of n started from bottom on every analysis
EntryStateFromBottom(entry_states_, n) == bottom

\* the state analyze_vertex starts the entry state of n from
EntryStateSeed(entry_states_, n) == get_state_at_or_bottom(entry_states_, n)

\* analyze_vertex: the new <<entry_states, exit_states>>
\* analyze_vertex that runs analyze_node on the entry state it found
\* stored, not on the one it has just computed
analyze_vertex_of_stored_entry(g, p, entry_states_, exit_states_, context_, n) ==
    LET entry_state == compute_entry_state(g, exit_states_, context_, n,
                                           EntryStateSeed(entry_states_, n))
    IN  <<MapPut(entry_states_, n, entry_state),
          MapPut(exit_states_, n, analyze_node(p, n, EntryStateSeed(entry_states_, n)))>>

analyze_vertex(g, p, entry_states_, exit_states_, context_, n) ==
    LET entry_state == compute_entry_state(g, exit_states_, context_, n,
                                           EntryStateSeed(entry_states_, n))
    IN  <<MapPut(entry_states_, n, entry_state),
          MapPut(exit_states_, n, analyze_node(p, n, entry_state))>>

\* extrapolate deciding on the local iteration count, which a stabilized pass
\* resets
extrapolate_local(context_, n, current_state, new_state) ==
    IF 0 = get_local_iterations_for(context_, n)
    THEN <<join_with(current_state, new_state), "join">>
    ELSE <<widen_with(current_state, new_state), "widen">>

\* extrapolate: <<the new value of *current_state, the operator applied>>
extrapolate(context_, n, current_state, new_state) ==
    IF 0 = get_global_iterations_for(context_, n)
    THEN <<join_with(current_state, new_state), "join">>
    ELSE <<widen_with(current_state, new_state), "widen">>

\* the test made strict: a pass that reproduces the current state does not
\* count as stable
StabilizedStrict(new_state, current_state) ==
    leq(new_state, current_state) /\ new_state # current_state

\* the test "new_state.leq(current_state)" of the exit branch
Stabilized(new_state, current_state) == leq(new_state, current_state)

\* the counter of a popped vertex left as it is
ResetCounterSkipped(counter, wpo_idx) == counter

\* wpo_counter[wpo_idx].store(0)
ResetCounter(counter, wpo_idx) == [counter EXCEPT ![wpo_idx] = 0]

\* the loop over get_successors(wpo_idx): <<wpo_counter, worklist>> after it
RECURSIVE ReleaseSuccessors(_, _, _, _)
ReleaseSuccessors(w, counter, wl, succs) ==
    IF succs = {} THEN <<counter, wl>>
    ELSE LET succ_idx == Min(succs)
             old_counter == counter[succ_idx]
         IN  ReleaseSuccessors(w, [counter EXCEPT ![succ_idx] = old_counter + 1],
                               IF old_counter + 1 = get_num_preds(w, succ_idx)
                               THEN Append(wl, succ_idx) ELSE wl,
                               succs \ {succ_idx})

\* the loop over get_num_outer_preds(wpo_idx): the counters after it
ReseedCountersReleasing(w, counter, wpo_idx) ==
    LET nop == get_num_outer_preds(w, wpo_idx)
    IN  [i \in DOMAIN counter |->
            counter[i] + MapGetOr(nop, i, 0)
                + (IF i \in get_successors(w, wpo_idx) THEN 1 ELSE 0)]

ReseedCounters(w, counter, wpo_idx) ==
    LET nop == get_num_outer_preds(w, wpo_idx)
    IN  [i \in DOMAIN counter |-> counter[i] + MapGetOr(nop, i, 0)]

\* the re-seeded vertices never pushed on the worklist
ReseedReleasedNone(w, counter, wpo_idx) == {}

\* ... and the vertices that loop pushes on the worklist
ReseedReleased(w, counter, wpo_idx) ==
    LET nop == get_num_outer_preds(w, wpo_idx)
    IN  {i \in DOMAIN nop : counter[i] + nop[i] = get_num_preds(w, i)}

\* the sequences that hold each element of S once (a HashMap iterates in an
\* unspecified order)
RECURSIVE Orderings(_)
Orderings(S) ==
    IF S = {} THEN {<<>>}
    ELSE UNION {{<<x>> \o t : t \in Orderings(S \ {x})} : x \in S}


\* the successor vectors of the nodes 1..i, with at most k edges in all, in
\* every order and with repeated edges (SimpleGraph keeps both)
RECURSIVE SuccLists(_, _, _)
SuccLists(n, i, k) ==
    IF i = 0 THEN {<<>>}
    ELSE UNION {{Append(rest, s) : rest \in SuccLists(n, i - 1, k - m),
                                   s \in [1..m -> 1..n]} : m \in 0..k}

\* the graphs of n nodes and at most k edges, and the graphs of the tests
OrderedGraphs(n, k) == {MkGraph(n, succs) : succs \in SuccLists(n, n, k)} \cup TestGraphs

(***************************************************************************)
(* State.                                                                  *)
(*   graph, prog, wpo, entry_states, exit_states: the iterator's fields    *)
(*     (prog is its transformer);                                          *)
(*   context, wpo_counter, worklist: the locals of run();                  *)
(*   count, stack: the locals "count" and "worklist" of check_wpo;         *)
(*   pc: "init" before the WPO is built, "idle" between calls of the       *)
(*     iterator, "running" inside run(), "done" when run() has returned,   *)
(*     "built" / "replay" / "replayed" around check_wpo, "panicked" after  *)
(*     a failed assertion;                                                 *)
(*   panic_at: the assertion that failed;                                  *)
(*   analyzed, stale, last, passes, visited: history, read only by the     *)
(*     properties: analyzed = nodes whose states were stored since the     *)
(*     maps were last cleared, stale = nodes whose stored state was not    *)
(*     bottom when the maps were last cleared, last = what the last step   *)
(*     of run() did, passes[n] = the outcomes of the exit passes of head n *)
(*     in this run, visited = the vertices check_wpo has popped, or the    *)
(*     vertices run() has popped since it was called.                      *)
(***************************************************************************)
\* ---------------------------------------------------------------------
\* datatype/bitvec.rs: bit vectors stored in one machine word, bit 0 first
\* ---------------------------------------------------------------------

POINTER_SIZE_IN_BITS == 64

\* bits & make_mask(len); at full length the mask is usize::MAX
MaskBits(v, len) == IF len = POINTER_SIZE_IN_BITS THEN v ELSE v % (2 ^ len)

from_int_with_len(v, len) == [bits |-> MaskBits(v, len), len |-> len]

\* impl From<usize> for BitVec
BitVec_from(u) == from_int_with_len(u, POINTER_SIZE_IN_BITS)

\* impl From<&BitVec> for usize
BitVec_into(bv) == MaskBits(bv.bits, bv.len)

\* get(idx); the caller checks idx < len where the code asserts it
BitVec_get(bv, idx) == (bv.bits \div (2 ^ idx)) % 2 = 1

begins_with(bv, prefix) ==
    IF bv.len < prefix.len THEN FALSE
    ELSE MaskBits(bv.bits, prefix.len) = MaskBits(prefix.bits, prefix.len)

\* the loop of common_prefix: the number of equal low bits below min_len
RECURSIVE CountPrefix(_, _, _, _)
CountPrefix(v1, v2, min_len, count_prefix) ==
    IF count_prefix < min_len
         /\ BitVec_get(v1, count_prefix) = BitVec_get(v2, count_prefix)
    THEN CountPrefix(v1, v2, min_len, count_prefix + 1)
    ELSE count_prefix

\* common_prefix that counts one equal bit less
common_prefix_one_short(v1, v2) ==
    from_int_with_len(v1.bits, Max({1, CountPrefix(v1, v2, Min({v1.len, v2.len}), 0)}) - 1)

common_prefix(v1, v2) ==
    from_int_with_len(v1.bits, CountPrefix(v1, v2, Min({v1.len, v2.len}), 0))

\* ---------------------------------------------------------------------
\* datatype/patricia_tree_impl.rs
\* Every node carries in rc the address of its Rc allocation: <<i>> for a
\* node that existed before the running operation, <<0>> \o path for one
\* the operation allocates, path being the position of the allocating call.
\* ---------------------------------------------------------------------

None == [tag |-> "None"]

\* a node built by a call that panicked
Panicked == [tag |-> "Panic"]

Leaf(rc, key, value) == [tag |-> "Leaf", rc |-> rc, key |-> key, value |-> value]

Branch(rc, prefix, left, right) ==
    [tag |-> "Branch", rc |-> rc, prefix |-> prefix, left |-> left, right |-> right]

is_some(maybe_node) == maybe_node.tag # "None"

ptr_eq(s, t) == s.rc = t.rc

key_or_prefix(node) == IF node.tag = "Leaf" THEN node.key ELSE node.prefix

\* make_branch that puts `one` on the left whatever its branching bit
make_branch_unordered(rc, one, other) ==
    IF one.tag = "Panic" \/ other.tag = "Panic" THEN Panicked
    ELSE Branch(rc, common_prefix(key_or_prefix(one), key_or_prefix(other)), one, other)

make_branch(rc, one, other) ==
    IF one.tag = "Panic" \/ other.tag = "Panic" THEN Panicked
    ELSE
    LET v1 == key_or_prefix(one)
        v2 == key_or_prefix(other)
    IN  IF v1 = v2 THEN Panicked
        ELSE LET common == common_prefix(v1, v2)
                 branching_bit == common.len
             IN  IF ~(branching_bit < v1.len /\ branching_bit < v2.len) THEN Panicked
                 ELSE LET b1 == BitVec_get(v1, branching_bit)
                          b2 == BitVec_get(v2, branching_bit)
                      IN  IF b1 = b2 THEN Panicked
                          ELSE IF ~b1 THEN Branch(rc, common, one, other)
                               ELSE Branch(rc, common, other, one)

\* the combiners the operations are exercised with: the left value, the
\* right value, and one that is not idempotent
Combiners == {"left", "right", "other_of_left"}

PatriciaValues == {1, 2}

\* ---------------------------------------------------------------------
\* datatype/powerset.rs: PowersetLattice over sets of 0..MaxElement, the
\* HashSetAbstractDomain of the tests of the partitions, of LiftedDomain
\* and of DisjointUnion.
\* ---------------------------------------------------------------------
PowersetTop == [tag |-> "Top"]

PowersetValue(S) == [tag |-> "Value", set |-> S]

PowersetBottom == [tag |-> "Bottom"]

PowersetLattice == {PowersetTop, PowersetBottom} \cup {PowersetValue(S) : S \in SUBSET (0..MaxElement)}

PowersetLattice_is_bottom(self) == self.tag = "Bottom"

PowersetLattice_is_top(self) == self.tag = "Top"

PowersetLattice_leq(self, rhs) ==
    CASE self.tag = "Top" -> PowersetLattice_is_top(rhs)
      [] self.tag = "Value" ->
            (CASE rhs.tag = "Top" -> TRUE
               [] rhs.tag = "Value" -> self.set \subseteq rhs.set
               [] rhs.tag = "Bottom" -> FALSE)
      [] self.tag = "Bottom" -> TRUE

\* join_with, meet_with, widen_with, narrow_with: self after the call
PowersetLattice_join_with(self, rhs) ==
    CASE self.tag = "Top" -> self
      [] self.tag = "Value" ->
            (CASE rhs.tag = "Top" -> rhs
               [] rhs.tag = "Value" -> PowersetValue(self.set \cup rhs.set)
               [] rhs.tag = "Bottom" -> self)
      [] self.tag = "Bottom" -> rhs

PowersetLattice_meet_with(self, rhs) ==
    CASE self.tag = "Top" -> rhs
      [] self.tag = "Value" ->
            (CASE rhs.tag = "Top" -> self
               [] rhs.tag = "Value" -> PowersetValue(self.set \cap rhs.set)
               [] rhs.tag = "Bottom" -> rhs)
      [] self.tag = "Bottom" -> self

PowersetLattice_widen_with(self, rhs) == PowersetTop

PowersetLattice_narrow_with(self, rhs) == PowersetBottom

PowersetLatticeOps ==
    {"PowersetLattice::join_with", "PowersetLattice::meet_with",
     "PowersetLattice::widen_with", "PowersetLattice::narrow_with"}

\* the closures |d1, d2| d1.join_with(d2), ... over PowersetLattice
PowersetLattice_operation(name, d1, d2) ==
    CASE name = "PowersetLattice::join_with" -> PowersetLattice_join_with(d1, d2)
      [] name = "PowersetLattice::meet_with" -> PowersetLattice_meet_with(d1, d2)
      [] name = "PowersetLattice::widen_with" -> PowersetLattice_widen_with(d1, d2)
      [] name = "PowersetLattice::narrow_with" -> PowersetLattice_narrow_with(d1, d2)

\* ---------------------------------------------------------------------
\* datatype/lifted_domain.rs: LiftedDomain<PowersetLattice>
\* ---------------------------------------------------------------------
Lifted(underlying) == [tag |-> "Lifted", underlying |-> underlying]

LiftedBottom == [tag |-> "Bottom"]

LiftedDomain == {LiftedBottom} \cup {Lifted(d) : d \in PowersetLattice}

LiftedDomain_bottom == LiftedBottom

LiftedDomain_leq(self, rhs) ==
    IF self.tag = "Bottom" THEN TRUE
    ELSE IF rhs.tag = "Bottom" THEN FALSE
    ELSE PowersetLattice_leq(self.underlying, rhs.underlying)

LiftedDomain_join_with(self, rhs) ==
    IF self.tag = "Bottom" THEN rhs
    ELSE IF rhs.tag = "Bottom" THEN self
    ELSE Lifted(PowersetLattice_join_with(self.underlying, rhs.underlying))

\* ---------------------------------------------------------------------
\* rust-proc-macros/src/lib.rs: what #[derive(DisjointUnion)] expands to
\* for the enum of the tests, MyUnionedDomain { FirstCase(PowersetLattice),
\* SecondCase(PowersetLattice) }
\* ---------------------------------------------------------------------
variant_idents == <<"FirstCase", "SecondCase">>

Variant(ident, dom) == [variant |-> ident, dom |-> dom]

MyUnionedDomain == {Variant(variant_idents[i], d) : i \in 1..Len(variant_idents), d \in PowersetLattice}

first_variant == Head(variant_idents)

DisjointUnion_bottom == Variant(first_variant, PowersetBottom)

DisjointUnion_top == Variant(first_variant, PowersetTop)

DisjointUnion_is_bottom(self) == PowersetLattice_is_bottom(self.dom)

DisjointUnion_is_top(self) == PowersetLattice_is_top(self.dom)

\* leq that compares the inner values whatever the variants
DisjointUnion_leq_across_variants(self, rhs) ==
    IF DisjointUnion_is_bottom(self) THEN TRUE
    ELSE IF DisjointUnion_is_bottom(rhs) THEN FALSE
    ELSE IF DisjointUnion_is_top(rhs) THEN TRUE
    ELSE IF DisjointUnion_is_top(self) THEN FALSE
    ELSE PowersetLattice_leq(self.dom, rhs.dom)

DisjointUnion_leq(self, rhs) ==
    IF DisjointUnion_is_bottom(self) THEN TRUE
    ELSE IF DisjointUnion_is_bottom(rhs) THEN FALSE
    ELSE IF DisjointUnion_is_top(rhs) THEN TRUE
    ELSE IF DisjointUnion_is_top(self) THEN FALSE
    ELSE IF self.variant = rhs.variant THEN PowersetLattice_leq(self.dom, rhs.dom)
    ELSE FALSE

DisjointUnion_join_with(self, rhs) ==
    IF self.variant = rhs.variant
    THEN Variant(self.variant, PowersetLattice_join_with(self.dom, rhs.dom))
    ELSE DisjointUnion_top

\* the closures |d1, d2| d1.join_with(d2), ... the lattice operations of a
\* map hand to join_like_operation and meet_like_operation, by name
LatticeOps == {"join_with", "meet_with", "widen_with", "narrow_with"}

operation(name, d1, d2) ==
    CASE name = "join_with" -> join_with(d1, d2)
      [] name = "meet_with" -> meet_with(d1, d2)
      [] name = "widen_with" -> widen_with(d1, d2)
      [] name = "narrow_with" -> narrow_with(d1, d2)

\* a combiner of Combiners, or the closure |s, t| { s.clone() changed by
\* operation(s, t.clone()) } the Patricia-backed maps pass down
value_op(f, l_value, r_value) ==
    CASE f = "left" -> l_value
      [] f = "right" -> r_value
      [] f = "other_of_left" -> 3 - l_value
      [] f \in LatticeOps -> operation(f, l_value, r_value)
      [] f \in PowersetLatticeOps -> PowersetLattice_operation(f, l_value, r_value)

\* the closure made by get_leaf_combine_with_value_op_semantics
leaf_combine(f, one_leaf, other_leaf, rc) ==
    IF one_leaf.tag = "Leaf" /\ other_leaf.tag = "Leaf"
    THEN Leaf(rc, one_leaf.key, value_op(f, one_leaf.value, other_leaf.value))
    ELSE Panicked

\* The closures passed to update_node_by_key, as data: insert hands back its
\* new leaf, remove hands back None, combine_leaves_by_key combines the leaf
\* found with `other`, the found leaf first.
InsertOp(new_leaf) == [kind |-> "insert", new_leaf |-> new_leaf]

RemoveOp == [kind |-> "remove"]

CombineOp(other, f) == [kind |-> "combine", other |-> other, f |-> f]

ApplyOp(op, maybe_node, path) ==
    CASE op.kind = "insert" -> op.new_leaf
      [] op.kind = "remove" -> None
      [] op.kind = "combine" ->
            IF is_some(maybe_node)
            THEN leaf_combine(op.f, maybe_node, op.other, path \o <<4>>)
            ELSE op.other

RECURSIVE update_node_by_key(_, _, _, _)
update_node_by_key(maybe_node, key, op, path) ==
    IF is_some(maybe_node)
    THEN LET node == maybe_node
         IN  IF node.tag = "Leaf"
             THEN IF node.key = key
                  THEN ApplyOp(op, maybe_node, path)
                  ELSE LET maybe_new_node == ApplyOp(op, None, path)
                       IN  IF is_some(maybe_new_node)
                           THEN make_branch(path \o <<2>>, maybe_new_node, node)
                           ELSE maybe_node
             ELSE IF begins_with(key, node.prefix)
                  THEN IF ~BitVec_get(key, node.prefix.len)
                       THEN LET maybe_new_left ==
                                    update_node_by_key(node.left, key, op, path \o <<0>>)
                            IN  IF is_some(maybe_new_left)
                                THEN make_branch(path \o <<2>>, maybe_new_left, node.right)
                                ELSE node.right
                       ELSE LET maybe_new_right ==
                                    update_node_by_key(node.right, key, op, path \o <<1>>)
                            IN  IF is_some(maybe_new_right)
                                THEN make_branch(path \o <<2>>, node.left, maybe_new_right)
                                ELSE node.left
                  ELSE LET maybe_new_node == ApplyOp(op, None, path)
                       IN  IF is_some(maybe_new_node)
                           THEN make_branch(path \o <<2>>, maybe_new_node, node)
                           ELSE maybe_node
    ELSE ApplyOp(op, None, path)

RECURSIVE find_node_by_key(_, _)
find_node_by_key(maybe_node, lookup_key) ==
    IF is_some(maybe_node)
    THEN IF maybe_node.tag = "Leaf"
         THEN IF maybe_node.key = lookup_key THEN maybe_node ELSE None
         ELSE IF maybe_node.prefix.len < lookup_key.len
              THEN IF ~BitVec_get(lookup_key, maybe_node.prefix.len)
                   THEN find_node_by_key(maybe_node.left, lookup_key)
                   ELSE find_node_by_key(maybe_node.right, lookup_key)
              ELSE IF maybe_node.prefix = lookup_key THEN maybe_node ELSE None
    ELSE None

find_leaf_by_key(maybe_node, lookup_key) ==
    LET found_node == find_node_by_key(maybe_node, lookup_key)
    IN  IF is_some(found_node) /\ found_node.tag = "Leaf" THEN found_node ELSE None

contains_leaf_with_key(maybe_node, lookup_key) ==
    is_some(find_leaf_by_key(maybe_node, lookup_key))

combine_leaves_by_key(node, key, other, f, path) ==
    update_node_by_key(node, key, CombineOp(other, f), path)

RECURSIVE merge_trees(_, _, _, _)
merge_trees(s, t, f, path) ==
    IF ptr_eq(s, t) THEN s
    ELSE IF t.tag = "Leaf"
    THEN combine_leaves_by_key(s, t.key, t, f, path \o <<3>>)
    ELSE IF s.tag = "Leaf"
    THEN combine_leaves_by_key(t, s.key, s, f, path \o <<3>>)
    ELSE IF s.prefix = t.prefix
    THEN LET new_left == merge_trees(s.left, t.left, f, path \o <<0>>)
             new_right == merge_trees(s.right, t.right, f, path \o <<1>>)
         IN  IF ptr_eq(new_left, s.left) /\ ptr_eq(new_right, s.right) THEN s
             ELSE IF ptr_eq(new_left, t.left) /\ ptr_eq(new_right, t.right) THEN t
             ELSE make_branch(path \o <<2>>, new_left, new_right)
    ELSE IF begins_with(t.prefix, s.prefix)
    THEN IF ~BitVec_get(t.prefix, s.prefix.len)
         THEN LET new_left == merge_trees(s.left, t, f, path \o <<0>>)
              IN  IF ptr_eq(s.left, new_left) THEN s
                  ELSE make_branch(path \o <<2>>, new_left, s.right)
         ELSE LET new_right == merge_trees(s.right, t, f, path \o <<1>>)
              IN  IF ptr_eq(s.right, new_right) THEN s
                  ELSE make_branch(path \o <<2>>, s.left, new_right)
    ELSE IF begins_with(s.prefix, t.prefix)
    THEN IF ~BitVec_get(s.prefix, t.prefix.len)
         THEN LET new_left == merge_trees(s, t.left, f, path \o <<0>>)
              IN  IF ptr_eq(t.left, new_left) THEN t
                  ELSE make_branch(path \o <<2>>, new_left, t.right)
         ELSE LET new_right == merge_trees(s, t.right, f, path \o <<1>>)
              IN  IF ptr_eq(t.right, new_right) THEN t
                  ELSE make_branch(path \o <<2>>, t.left, new_right)
    ELSE make_branch(path \o <<2>>, s, t)

RECURSIVE intersect_trees(_, _, _, _)
intersect_trees(s, t, f, path) ==
    IF ptr_eq(s, t) THEN s
    ELSE IF s.tag = "Leaf"
    THEN LET t_leaf == find_leaf_by_key(t, s.key)
         IN  IF is_some(t_leaf) THEN leaf_combine(f, s, t_leaf, path \o <<4>>) ELSE None
    ELSE IF t.tag = "Leaf"
    THEN LET s_leaf == find_leaf_by_key(s, t.key)
         IN  IF is_some(s_leaf) THEN leaf_combine(f, s_leaf, t, path \o <<4>>) ELSE None
    ELSE IF s.prefix = t.prefix
    THEN LET new_left == intersect_trees(s.left, t.left, f, path \o <<0>>)
             new_right == intersect_trees(s.right, t.right, f, path \o <<1>>)
         IN  IF ~is_some(new_right) THEN new_left
             ELSE IF ~is_some(new_left) THEN new_right
             ELSE make_branch(path \o <<2>>, new_left, new_right)
    ELSE IF begins_with(t.prefix, s.prefix)
    THEN intersect_trees(IF ~BitVec_get(t.prefix, s.prefix.len) THEN s.left ELSE s.right,
                         t, f, path \o <<0>>)
    ELSE IF begins_with(s.prefix, t.prefix)
    THEN intersect_trees(s, IF ~BitVec_get(s.prefix, t.prefix.len) THEN t.left ELSE t.right,
                         f, path \o <<1>>)
    ELSE None

\* the value the failed assertion of is_tree_subset_of stands for
SubsetPanic == "panic"

RECURSIVE is_tree_subset_of(_, _)
is_tree_subset_of(s, t) ==
    IF ptr_eq(s, t) THEN TRUE
    ELSE IF s.tag = "Leaf" THEN contains_leaf_with_key(t, s.key)
    ELSE IF t.tag = "Leaf" THEN FALSE
    ELSE IF s.prefix = t.prefix
    THEN is_tree_subset_of(s.left, t.left) /\ is_tree_subset_of(s.right, t.right)
    ELSE IF begins_with(s.prefix, t.prefix)
    THEN IF ~(s.prefix.len > t.prefix.len) THEN SubsetPanic
         ELSE IF ~BitVec_get(s.prefix, t.prefix.len)
              THEN is_tree_subset_of(s.left, t.left) /\ is_tree_subset_of(s.right, t.left)
              ELSE is_tree_subset_of(s.left, t.right) /\ is_tree_subset_of(s.right, t.right)
    ELSE FALSE

\* PatriciaTree: the root, None or a node
PatriciaTree_new == None

\* insert that keeps the value of a key already present
PatriciaTree_insert_if_absent(root, key, value) ==
    IF contains_leaf_with_key(root, key) THEN root
    ELSE update_node_by_key(root, key, InsertOp(Leaf(<<0, 5>>, key, value)), <<0>>)

PatriciaTree_insert(root, key, value) ==
    update_node_by_key(root, key, InsertOp(Leaf(<<0, 5>>, key, value)), <<0>>)

PatriciaTree_remove(root, key) == update_node_by_key(root, key, RemoveOp, <<0>>)

PatriciaTree_get(root, key) ==
    LET node == find_leaf_by_key(root, key)
    IN  IF is_some(node) THEN <<node.value>> ELSE <<>>

PatriciaTree_contains_key(root, key) == PatriciaTree_get(root, key) # <<>>

\* PatriciaTreePostOrderIterator: the leaves, left subtree first
RECURSIVE PatriciaTree_iter(_)
PatriciaTree_iter(root) ==
    IF ~is_some(root) THEN <<>>
    ELSE IF root.tag = "Leaf" THEN <<<<root.key, root.value>>>>
    ELSE PatriciaTree_iter(root.left) \o PatriciaTree_iter(root.right)

PatriciaTree_len(root) == Len(PatriciaTree_iter(root))

PatriciaTree_is_empty(root) == ~is_some(root)

PatriciaTree_union_with(self, other, f) ==
    IF ~is_some(self) THEN other
    ELSE IF ~is_some(other) THEN self
    ELSE merge_trees(self, other, f, <<0>>)

\* intersect_with that leaves self alone when other is empty
PatriciaTree_intersect_with_nonempty(self, other, f) ==
    IF ~is_some(self) \/ ~is_some(other) THEN self
    ELSE intersect_trees(self, other, f, <<0>>)

PatriciaTree_intersect_with(self, other, f) ==
    IF ~is_some(self) THEN self
    ELSE IF ~is_some(other) THEN None
    ELSE intersect_trees(self, other, f, <<0>>)

\* subset_of that takes every tree for a subset of the empty tree
PatriciaTree_subset_of_empty_other(self, other) ==
    IF ~is_some(self) \/ ~is_some(other) THEN TRUE
    ELSE is_tree_subset_of(self, other)

PatriciaTree_subset_of(self, other) ==
    IF ~is_some(self) THEN TRUE
    ELSE IF ~is_some(other) THEN FALSE
    ELSE is_tree_subset_of(self, other)

\* Equality of two trees: the same address, or the same nodes all the way
\* down.
RECURSIVE Node_eq(_, _)
Node_eq(s, t) ==
    IF s.tag # t.tag THEN FALSE
    ELSE IF s.tag = "None" THEN TRUE
    ELSE IF ptr_eq(s, t) THEN TRUE
    ELSE IF s.tag = "Leaf" THEN s.key = t.key /\ s.value = t.value
    ELSE s.prefix = t.prefix /\ Node_eq(s.left, t.left) /\ Node_eq(s.right, t.right)

PatriciaTree_eq(self, other) == Node_eq(self, other)

\* The addresses of the nodes of a tree, in visiting order.
RECURSIVE Addresses(_)
Addresses(node) ==
    IF node.tag \in {"None", "Panic"} THEN <<>>
    ELSE IF node.tag = "Leaf" THEN <<node.rc>>
    ELSE <<node.rc>> \o Addresses(node.left) \o Addresses(node.right)

RECURSIVE FirstOccurrences(_, _)
FirstOccurrences(seq, seen) ==
    IF seq = <<>> THEN <<>>
    ELSE IF Head(seq) \in seen THEN FirstOccurrences(Tail(seq), seen)
    ELSE <<Head(seq)>> \o FirstOccurrences(Tail(seq), seen \cup {Head(seq)})

RECURSIVE Readdress(_, _)
Readdress(node, order) ==
    IF node.tag \in {"None", "Panic"} THEN node
    ELSE LET rc == <<CHOOSE i \in 1..Len(order) : order[i] = node.rc>>
         IN  IF node.tag = "Leaf" THEN [node EXCEPT !.rc = rc]
             ELSE [node EXCEPT !.rc = rc,
                               !.left = Readdress(node.left, order),
                               !.right = Readdress(node.right, order)]

\* Only the equality of two addresses is observable, so the live nodes of
\* the two trees are renumbered in visiting order after every operation and
\* the nodes no tree reaches any more are forgotten.
Collect(roots) ==
    LET order == FirstOccurrences(Addresses(roots[1]) \o Addresses(roots[2]), {})
    IN  <<Readdress(roots[1], order), Readdress(roots[2], order)>>

\* ---------------------------------------------------------------------
\* datatype/patricia_tree_map.rs: PatriciaTreeMap<usize, V>, the storage
\* ---------------------------------------------------------------------

PatriciaTreeMap_new == PatriciaTree_new

PatriciaTreeMap_upsert(storage, key, value) ==
    PatriciaTree_insert(storage, BitVec_from(key), value)

PatriciaTreeMap_get(storage, key) == PatriciaTree_get(storage, BitVec_from(key))

PatriciaTreeMap_remove(storage, key) == PatriciaTree_remove(storage, BitVec_from(key))

\* union_with and intersect_with of the map hand the storages and the
\* combiner to the tree
PatriciaTreeMap_union_with(storage, other, f) == PatriciaTree_union_with(storage, other, f)

PatriciaTreeMap_intersect_with(storage, other, f) ==
    PatriciaTree_intersect_with(storage, other, f)

\* PatriciaTreeMapIterator: the pairs with their keys converted back
PatriciaTreeMap_iter(storage) ==
    LET it == PatriciaTree_iter(storage)
    IN  [i \in 1..Len(it) |-> <<BitVec_into(it[i][1]), it[i][2]>>]

\* ---------------------------------------------------------------------
\* datatype/abstract_environment.rs over the IntegerSet domain.  An
\* environment is Bottom or Value(map); Option values are <<x>> or <<>>.
\* ---------------------------------------------------------------------

is_top(d) == d.top

is_bottom(d) == ~d.top /\ d.set = {}

EnvBottom == [tag |-> "Bottom"]

EnvValue(map) == [tag |-> "Value", map |-> map]

\* the closures handed to update: *d = arg, and d.join_with(arg)
UpdateOp(op, d) ==
    CASE op.kind = "assign" -> op.arg
      [] op.kind = "join_with" -> join_with(d, op.arg)

HashMapAbstractEnvironment_top == EnvValue(EmptyMap)

HashMapAbstractEnvironment_bindings(self) ==
    IF self.tag = "Value" THEN <<self.map>> ELSE <<>>

HashMapAbstractEnvironment_get(self, variable) ==
    IF self.tag = "Bottom" THEN bottom
    ELSE IF variable \in DOMAIN self.map THEN self.map[variable]
    ELSE Top

HashMap_remove(map, k) == [x \in DOMAIN map \ {k} |-> map[x]]

\* set with a top value stored like any other value
HashMapAbstractEnvironment_set_storing_top(self, variable, domain) ==
    IF self.tag = "Value"
    THEN IF is_bottom(domain) THEN EnvBottom
         ELSE EnvValue(MapPut(self.map, variable, domain))
    ELSE self

HashMapAbstractEnvironment_set(self, variable, domain) ==
    IF self.tag = "Value"
    THEN IF is_top(domain) THEN EnvValue(HashMap_remove(self.map, variable))
         ELSE IF is_bottom(domain) THEN EnvBottom
         ELSE EnvValue(MapPut(self.map, variable, domain))
    ELSE self

HashMapAbstractEnvironment_update(self, variable, op) ==
    IF self.tag = "Value"
    THEN IF variable \in DOMAIN self.map
         THEN LET explicit_value == UpdateOp(op, self.map[variable])
              IN  IF is_top(explicit_value)
                  THEN EnvValue(HashMap_remove(self.map, variable))
                  ELSE IF is_bottom(explicit_value) THEN EnvBottom
                  ELSE EnvValue(MapPut(self.map, variable, explicit_value))
         ELSE LET domain == UpdateOp(op, Top)
              IN  IF is_top(domain) THEN self
                  ELSE IF is_bottom(domain) THEN EnvBottom
                  ELSE EnvValue(MapPut(self.map, variable, domain))
    ELSE self

PatriciaTreeMapAbstractEnvironment_top == EnvValue(PatriciaTreeMap_new)

PatriciaTreeMapAbstractEnvironment_bindings(self) ==
    IF self.tag = "Value" THEN <<self.map>> ELSE <<>>

PatriciaTreeMapAbstractEnvironment_get(self, variable) ==
    IF self.tag = "Bottom" THEN bottom
    ELSE LET found == PatriciaTreeMap_get(self.map, variable)
         IN  IF found # <<>> THEN found[1] ELSE Top

PatriciaTreeMapAbstractEnvironment_set(self, variable, domain) ==
    IF self.tag = "Value"
    THEN IF is_top(domain) THEN EnvValue(PatriciaTreeMap_remove(self.map, variable))
         ELSE IF is_bottom(domain) THEN EnvBottom
         ELSE EnvValue(PatriciaTreeMap_upsert(self.map, variable, domain))
    ELSE self

PatriciaTreeMapAbstractEnvironment_update(self, variable, op) ==
    IF self.tag = "Bottom" THEN self
    ELSE LET found == PatriciaTreeMap_get(self.map, variable)
             update_domain == UpdateOp(op, IF found # <<>> THEN found[1] ELSE Top)
         IN  PatriciaTreeMapAbstractEnvironment_set(self, variable, update_domain)

\* a lattice operation that failed an assertion
EnvPanicked == [tag |-> "Panic"]

HashMapAbstractEnvironment_join_like_operation(lhs, rhs, name) ==
    IF lhs.tag = "Value" /\ rhs.tag = "Value"
    THEN LET retained == DOMAIN lhs.map \cap DOMAIN rhs.map
             l_map == [l_k \in retained |-> operation(name, lhs.map[l_k], rhs.map[l_k])]
         IN  EnvValue([l_k \in {k \in retained : ~is_top(l_map[k])} |-> l_map[l_k]])
    ELSE IF lhs.tag = "Bottom" THEN rhs
    ELSE lhs

\* the loop of meet_like_operation over the bindings of rhs still to visit
RECURSIVE HashMapMeetLoop(_, _, _, _)
HashMapMeetLoop(l_map, r_map, r_keys, name) ==
    IF r_keys = <<>> THEN EnvValue(l_map)
    ELSE LET r_k == Head(r_keys)
         IN  IF r_k \in DOMAIN l_map
             THEN LET l_v == operation(name, l_map[r_k], r_map[r_k])
                  IN  IF is_top(l_v) THEN EnvPanicked
                      ELSE IF is_bottom(l_v) THEN EnvBottom
                      ELSE HashMapMeetLoop(MapPut(l_map, r_k, l_v), r_map, Tail(r_keys), name)
             ELSE HashMapMeetLoop(MapPut(l_map, r_k, r_map[r_k]), r_map, Tail(r_keys), name)

HashMapAbstractEnvironment_meet_like_operation(lhs, rhs, name) ==
    IF lhs.tag = "Value" /\ rhs.tag = "Value"
    THEN HashMapMeetLoop(lhs.map, rhs.map, SetToSeq(DOMAIN rhs.map), name)
    ELSE IF lhs.tag = "Bottom" THEN lhs
    ELSE rhs

\* join_with, meet_with, widen_with and narrow_with of the environment
HashMapAbstractEnvironment_lattice(self, rhs, name) ==
    IF name \in {"join_with", "widen_with"}
    THEN HashMapAbstractEnvironment_join_like_operation(self, rhs, name)
    ELSE HashMapAbstractEnvironment_meet_like_operation(self, rhs, name)

PatriciaTreeMapAbstractEnvironment_join_like_operation(lhs, rhs, name) ==
    IF lhs.tag = "Value" /\ rhs.tag = "Value"
    THEN EnvValue(PatriciaTreeMap_intersect_with(lhs.map, rhs.map, name))
    ELSE IF lhs.tag = "Bottom" THEN rhs
    ELSE lhs

PatriciaTreeMapAbstractEnvironment_meet_like_operation(lhs, rhs, name) ==
    IF lhs.tag = "Value" /\ rhs.tag = "Value"
    THEN EnvValue(PatriciaTreeMap_union_with(lhs.map, rhs.map, name))
    ELSE IF lhs.tag = "Bottom" THEN lhs
    ELSE rhs

PatriciaTreeMapAbstractEnvironment_eq(self, rhs) ==
    IF self.tag = "Value" /\ rhs.tag = "Value" THEN PatriciaTree_eq(self.map, rhs.map)
    ELSE IF self.tag = "Bottom" /\ rhs.tag = "Bottom" THEN TRUE
    ELSE FALSE

PatriciaTreeMapAbstractEnvironment_lattice(self, rhs, name) ==
    IF name \in {"join_with", "widen_with"}
    THEN PatriciaTreeMapAbstractEnvironment_join_like_operation(self, rhs, name)
    ELSE PatriciaTreeMapAbstractEnvironment_meet_like_operation(self, rhs, name)

\* ---------------------------------------------------------------------
\* datatype/abstract_partition.rs over PowersetLattice.  A partition is
\* Top or Value(map).
\* ---------------------------------------------------------------------
PartitionTop == [tag |-> "Top"]

PartitionValue(map) == [tag |-> "Value", map |-> map]

\* the closures handed to update: *d = arg, d.join_with(arg) and
\* d.meet_with(arg)
PartitionUpdateOp(op, d) ==
    CASE op.kind = "assign" -> op.arg
      [] op.kind = "join_with" -> PowersetLattice_join_with(d, op.arg)
      [] op.kind = "meet_with" -> PowersetLattice_meet_with(d, op.arg)

HashMapAbstractPartition_bottom == PartitionValue(EmptyMap)

HashMapAbstractPartition_top == PartitionTop

HashMapAbstractPartition_is_bottom(self) == self.tag = "Value" /\ DOMAIN self.map = {}

HashMapAbstractPartition_is_top(self) == self.tag = "Top"

HashMapAbstractPartition_bindings(self) ==
    IF self.tag = "Value" THEN <<self.map>> ELSE <<>>

HashMapAbstractPartition_get(self, label) ==
    IF self.tag = "Top" THEN PowersetTop
    ELSE IF label \in DOMAIN self.map THEN self.map[label]
    ELSE PowersetBottom

HashMapAbstractPartition_set(self, label, domain) ==
    IF self.tag = "Top" THEN self
    ELSE IF PowersetLattice_is_bottom(domain)
    THEN PartitionValue(HashMap_remove(self.map, label))
    ELSE PartitionValue(MapPut(self.map, label, domain))

HashMapAbstractPartition_update(self, label, op) ==
    IF self.tag = "Top" THEN self
    ELSE IF label \in DOMAIN self.map
    THEN PartitionValue(MapPut(self.map, label, PartitionUpdateOp(op, self.map[label])))
    ELSE LET temp == PartitionUpdateOp(op, PowersetBottom)
         IN  IF ~PowersetLattice_is_bottom(temp)
             THEN PartitionValue(MapPut(self.map, label, temp))
             ELSE self

\* a lattice operation of a partition that failed an assertion
PartitionPanicked == [tag |-> "Panic"]

\* the loop of join_like_operation over the bindings of rhs still to visit
RECURSIVE HashMapJoinLoop(_, _, _, _)
HashMapJoinLoop(l_map, r_map, r_keys, name) ==
    IF r_keys = <<>> THEN PartitionValue(l_map)
    ELSE LET r_k == Head(r_keys)
         IN  IF r_k \in DOMAIN l_map
             THEN LET l_v == PowersetLattice_operation(name, l_map[r_k], r_map[r_k])
                  IN  IF PowersetLattice_is_bottom(l_v) THEN PartitionPanicked
                      ELSE HashMapJoinLoop(MapPut(l_map, r_k, l_v), r_map, Tail(r_keys), name)
             ELSE HashMapJoinLoop(MapPut(l_map, r_k, r_map[r_k]), r_map, Tail(r_keys), name)

HashMapAbstractPartition_join_like_operation(lhs, rhs, name) ==
    IF lhs.tag = "Top" THEN lhs
    ELSE IF rhs.tag = "Top" THEN PartitionTop
    ELSE HashMapJoinLoop(lhs.map, rhs.map, SetToSeq(DOMAIN rhs.map), name)

HashMapAbstractPartition_meet_like_operation(lhs, rhs, name) ==
    IF lhs.tag = "Top" THEN rhs
    ELSE IF rhs.tag = "Top" THEN lhs
    ELSE LET retained == DOMAIN lhs.map \cap DOMAIN rhs.map
             l_map == [l_k \in retained |->
                          PowersetLattice_operation(name, lhs.map[l_k], rhs.map[l_k])]
         IN  PartitionValue([l_k \in {k \in retained : ~PowersetLattice_is_bottom(l_map[k])}
                                |-> l_map[l_k]])

\* join_with, meet_with, widen_with and narrow_with of the partition
HashMapAbstractPartition_lattice(self, rhs, name) ==
    IF name \in {"PowersetLattice::join_with", "PowersetLattice::widen_with"}
    THEN HashMapAbstractPartition_join_like_operation(self, rhs, name)
    ELSE HashMapAbstractPartition_meet_like_operation(self, rhs, name)

PatriciaTreeMapAbstractPartition_bottom == PartitionValue(PatriciaTreeMap_new)

PatriciaTreeMapAbstractPartition_top == PartitionTop

PatriciaTreeMapAbstractPartition_is_bottom(self) ==
    self.tag = "Value" /\ PatriciaTree_is_empty(self.map)

PatriciaTreeMapAbstractPartition_is_top(self) == self.tag = "Top"

PatriciaTreeMapAbstractPartition_bindings(self) ==
    IF self.tag = "Value" THEN <<self.map>> ELSE <<>>

PatriciaTreeMapAbstractPartition_eq(self, rhs) ==
    IF self.tag = "Top" /\ rhs.tag = "Top" THEN TRUE
    ELSE IF self.tag = "Value" /\ rhs.tag = "Value" THEN PatriciaTree_eq(self.map, rhs.map)
    ELSE FALSE

PatriciaTreeMapAbstractPartition_get(self, label) ==
    IF self.tag = "Top" THEN PowersetTop
    ELSE LET found == PatriciaTreeMap_get(self.map, label)
         IN  IF found # <<>> THEN found[1] ELSE PowersetBottom

\* set that changes a Top partition into the partition of one binding
PatriciaTreeMapAbstractPartition_set_rebinding_top(self, label, domain) ==
    IF self.tag = "Top"
    THEN IF PowersetLattice_is_top(domain) THEN self
         ELSE PartitionValue(PatriciaTreeMap_upsert(PatriciaTreeMap_new, label, domain))
    ELSE IF PowersetLattice_is_bottom(domain)
    THEN PartitionValue(PatriciaTreeMap_remove(self.map, label))
    ELSE PartitionValue(PatriciaTreeMap_upsert(self.map, label, domain))

PatriciaTreeMapAbstractPartition_set(self, label, domain) ==
    IF self.tag = "Top" THEN self
    ELSE IF PowersetLattice_is_bottom(domain)
    THEN PartitionValue(PatriciaTreeMap_remove(self.map, label))
    ELSE PartitionValue(PatriciaTreeMap_upsert(self.map, label, domain))

PatriciaTreeMapAbstractPartition_update(self, label, op) ==
    IF self.tag = "Top" THEN self
    ELSE LET found == PatriciaTreeMap_get(self.map, label)
             update_domain ==
                 PartitionUpdateOp(op, IF found # <<>> THEN found[1] ELSE PowersetBottom)
         IN  PatriciaTreeMapAbstractPartition_set(self, label, update_domain)

PatriciaTreeMapAbstractPartition_join_like_operation(lhs, rhs, name) ==
    IF lhs.tag = "Top" THEN lhs
    ELSE IF rhs.tag = "Top" THEN rhs
    ELSE PartitionValue(PatriciaTreeMap_union_with(lhs.map, rhs.map, name))

PatriciaTreeMapAbstractPartition_meet_like_operation(lhs, rhs, name) ==
    IF lhs.tag = "Top" THEN rhs
    ELSE IF rhs.tag = "Top" THEN lhs
    ELSE PartitionValue(PatriciaTreeMap_intersect_with(lhs.map, rhs.map, name))

PatriciaTreeMapAbstractPartition_lattice(self, rhs, name) ==
    IF name \in {"PowersetLattice::join_with", "PowersetLattice::widen_with"}
    THEN PatriciaTreeMapAbstractPartition_join_like_operation(self, rhs, name)
    ELSE PatriciaTreeMapAbstractPartition_meet_like_operation(self, rhs, name)

\* the nodes of the map of an environment renumbered in visiting order
CollectEnv(self) ==
    IF self.tag = "Value" THEN EnvValue(Collect(<<self.map, None>>)[1]) ELSE self

VARIABLES graph, prog, wpo, entry_states, exit_states, context, wpo_counter,
          worklist, count, stack, pc, panic_at, analyzed, stale, last, passes,
          visited, tree, model, hm_env, pt_env, called, hm_part, pt_part, calc

vars == <<graph, prog, wpo, entry_states, exit_states, context, wpo_counter,
          worklist, count, stack, pc, panic_at, analyzed, stale, last, passes,
          visited, tree, model, hm_env, pt_env, called, hm_part, pt_part, calc>>

\* the variables of the data structures
dataVars == <<tree, model, hm_env, pt_env, called, hm_part, pt_part, calc>>

\* the variables of the iterator and of the WPO replay
iterVars == <<graph, prog, wpo, entry_states, exit_states, context, wpo_counter,
              worklist, count, stack, pc, panic_at, analyzed, stale, last, passes,
              visited>>

NoCall == [op |-> "none", hit |-> FALSE, aliased |-> FALSE]

\* no operation of a domain applied yet
NoCalc == [domain |-> "none"]

NoStep == [kind |-> "none", idx |-> 0, node |-> 0, op |-> "none"]

NoPasses == [n \in Nodes(graph) |-> <<>>]

\* the nodes that hold a state other than bottom in one of the two maps
NotBottom ==
    {n \in DOMAIN entry_states : entry_states[n] # bottom}
        \cup {n \in DOMAIN exit_states : exit_states[n] # bottom}

get_entry_state_at(n) == get_state_at_or_bottom(entry_states, n)

get_exit_state_at(n) == get_state_at_or_bottom(exit_states, n)

\* the state before anything is constructed, whatever the graph
InitState ==
    /\ prog = <<>>
    /\ wpo = <<>>
    /\ entry_states = EmptyMap
    /\ exit_states = EmptyMap
    /\ context = Context_new(bottom)
    /\ wpo_counter = <<>>
    /\ worklist = <<>>
    /\ count = EmptyMap
    /\ stack = <<>>
    /\ pc = "init"
    /\ panic_at = "none"
    /\ analyzed = {}
    /\ stale = {}
    /\ last = NoStep
    /\ passes = <<>>
    /\ visited = <<>>
    /\ tree = <<PatriciaTree_new, PatriciaTree_new>>
    /\ model = <<EmptyMap, EmptyMap>>
    /\ hm_env = HashMapAbstractEnvironment_top
    /\ pt_env = PatriciaTreeMapAbstractEnvironment_top
    /\ called = NoCall
    /\ hm_part = HashMapAbstractPartition_bottom
    /\ pt_part = PatriciaTreeMapAbstractPartition_bottom

InitRest == InitState /\ calc = NoCalc

Init == graph \in Graphs /\ InitRest

\* MonotonicFixpointIterator::new
New ==
    /\ pc = "init"
    /\ wpo' = WeakPartialOrdering_new(GraphEntry, graph.size, graph)
    /\ prog' \in Programs(graph)
    /\ pc' = IF wpo'.panic \/ wpo'.hang THEN "panicked" ELSE "idle"
    /\ panic_at' = IF wpo'.panic \/ wpo'.hang THEN "WeakPartialOrdering::new" ELSE "none"
    /\ UNCHANGED <<dataVars, graph, entry_states, exit_states, context, wpo_counter, worklist,
                   count, stack, analyzed, stale, last, passes, visited>>

\* clear()
Clear ==
    /\ pc \in {"idle", "done"}
    /\ entry_states' = clear(entry_states)
    /\ exit_states' = clear(exit_states)
    /\ analyzed' = {}
    /\ stale' = NotBottom
    /\ pc' = "idle"
    /\ last' = NoStep
    /\ UNCHANGED <<dataVars, graph, prog, wpo, context, wpo_counter, worklist, count, stack,
                   panic_at, passes, visited>>

\* set_all_to_bottom(all_nodes) with every node of the graph
SetAllToBottom ==
    /\ pc \in {"idle", "done"}
    /\ entry_states' = [n \in DOMAIN entry_states \cup Nodes(graph) |->
                           IF n \in Nodes(graph) THEN bottom ELSE entry_states[n]]
    /\ exit_states' = [n \in DOMAIN exit_states \cup Nodes(graph) |->
                          IF n \in Nodes(graph) THEN bottom ELSE exit_states[n]]
    /\ analyzed' = {}
    /\ stale' = NotBottom
    /\ pc' = "idle"
    /\ last' = NoStep
    /\ UNCHANGED <<dataVars, graph, prog, wpo, context, wpo_counter, worklist, count, stack,
                   panic_at, passes, visited>>

\* run(init_value) up to the worklist loop
Run ==
    /\ pc \in {"idle", "done"}
    /\ entry_states' = clear(entry_states)
    /\ exit_states' = clear(exit_states)
    /\ \E init_value \in InitValues : context' = Context_new(init_value)
    /\ analyzed' = {}
    /\ stale' = NotBottom
    /\ wpo_counter' = [i \in 0..(size(wpo) - 1) |-> 0]
    /\ worklist' = <<get_entry(wpo)>>
    /\ IF get_num_preds(wpo, get_entry(wpo)) = 0
       THEN pc' = "running" /\ panic_at' = "none"
       ELSE pc' = "panicked" /\ panic_at' = "run: num_preds(entry)"
    /\ last' = NoStep
    /\ passes' = NoPasses
    /\ visited' = <<>>
    /\ UNCHANGED <<dataVars, graph, prog, wpo, count, stack>>

\* one iteration of the worklist loop when the popped vertex is Plain or Head
ProcessPlainOrHead(wpo_idx, wl, counter) ==
    LET n == get_node(wpo, wpo_idx)
        states == analyze_vertex(graph, prog, entry_states, exit_states, context, n)
        released == ReleaseSuccessors(wpo, counter, wl, get_successors(wpo, wpo_idx))
    IN  /\ entry_states' = states[1]
        /\ exit_states' = states[2]
        /\ wpo_counter' = released[1]
        /\ worklist' = released[2]
        /\ analyzed' = analyzed \cup {n}
        /\ last' = [kind |-> "analyze", idx |-> wpo_idx, node |-> n, op |-> "none"]
        /\ UNCHANGED <<context, pc, panic_at, passes>>

\* ... when it is an Exit
ProcessExit(wpo_idx, wl, counter) ==
    LET head_idx == get_head_of_exit(wpo_idx)
        head == get_node(wpo, head_idx)
        current_state == get_state_at_or_bottom(entry_states, head)
        new_state == compute_entry_state(graph, exit_states, context, head, bottom)
        entry_idx == get_entry(wpo)
    IN  IF Stabilized(new_state, current_state)
        THEN LET released == ReleaseSuccessors(wpo, counter, wl,
                                               get_successors(wpo, wpo_idx))
             IN  /\ context' = reset_local_iteration_count_for(context, head)
                 /\ entry_states' = MapPut(entry_states, head, new_state)
                 /\ wpo_counter' = released[1]
                 /\ worklist' = released[2]
                 /\ last' = [kind |-> "stabilized", idx |-> wpo_idx, node |-> head,
                             op |-> "none"]
                 /\ passes' = [passes EXCEPT ![head] = Append(@, "stable")]
                 /\ UNCHANGED <<exit_states, analyzed, pc, panic_at>>
        ELSE LET ex == extrapolate(context, head, current_state, new_state)
             IN  /\ get_global_iterations_for(context, head) < MaxIter
                 /\ entry_states' = MapPut(entry_states, head, ex[1])
                 /\ context' = increase_iteration_count_for(context, head)
                 /\ last' = [kind |-> "extrapolated", idx |-> wpo_idx, node |-> head,
                             op |-> ex[2]]
                 /\ passes' = [passes EXCEPT ![head] = Append(@, ex[2])]
                 /\ IF entry_idx \in DOMAIN get_num_outer_preds(wpo, wpo_idx)
                    THEN /\ pc' = "panicked"
                         /\ panic_at' = "process_node: component_idx != entry_idx"
                         /\ UNCHANGED <<wpo_counter, worklist>>
                    ELSE /\ wpo_counter' = ReseedCounters(wpo, counter, wpo_idx)
                         /\ \E order \in Orderings(ReseedReleased(wpo, counter, wpo_idx)) :
                                worklist' = wl \o order \o
                                    (IF head_idx = entry_idx THEN <<head_idx>> ELSE <<>>)
                         /\ UNCHANGED <<pc, panic_at>>
                 /\ UNCHANGED <<exit_states, analyzed>>

\* one iteration of "while let Some(idx) = worklist.pop_front()"
ProcessNode ==
    /\ pc = "running"
    /\ worklist # <<>>
    /\ LET wpo_idx == Head(worklist)
           wl == Tail(worklist)
       IN  IF wpo_counter[wpo_idx] # get_num_preds(wpo, wpo_idx)
           THEN /\ pc' = "panicked"
                /\ panic_at' = "process_node: wpo_counter == num_preds"
                /\ worklist' = wl
                /\ UNCHANGED <<entry_states, exit_states, context, wpo_counter,
                               analyzed, last, passes>>
           ELSE IF ~is_exit(wpo, wpo_idx)
           THEN ProcessPlainOrHead(wpo_idx, wl, ResetCounter(wpo_counter, wpo_idx))
           ELSE ProcessExit(wpo_idx, wl, ResetCounter(wpo_counter, wpo_idx))
    /\ visited' = Append(visited, Head(worklist))
    /\ UNCHANGED <<dataVars, graph, prog, wpo, count, stack, stale>>

\* the worklist is empty: the final assertions, and run() returns
RunReturn ==
    /\ pc = "running"
    /\ worklist = <<>>
    /\ IF \A i \in DOMAIN wpo_counter : wpo_counter[i] = 0
       THEN pc' = "done" /\ panic_at' = "none"
       ELSE pc' = "panicked" /\ panic_at' = "run: counter == 0"
    /\ UNCHANGED <<dataVars, graph, prog, wpo, entry_states, exit_states, context, wpo_counter,
                   worklist, count, stack, analyzed, stale, last, passes, visited>>

Next == New \/ Clear \/ SetAllToBottom \/ Run \/ ProcessNode \/ RunReturn

Spec == Init /\ [][Next]_vars

\* the graphs whose nodes are all reachable from the entry
ConnectedGraphs == {g \in Graphs : Reachable(g) = Nodes(g)}

InitLive == graph \in ConnectedGraphs /\ InitRest

\* run() is one sequential call: once started, its loop keeps taking steps
SpecLive == InitLive /\ [][Next]_vars /\ WF_vars(ProcessNode) /\ WF_vars(RunReturn)

(***************************************************************************)
(* The WPO on its own, replayed as check_wpo does (tests/wpo_test.rs).     *)
(***************************************************************************)
InitWpo == graph \in OrderedGraphs(MaxNodes, MaxEdges) /\ InitRest

\* WeakPartialOrdering::new(root, size, successors)
Build ==
    /\ pc = "init"
    /\ wpo' = WeakPartialOrdering_new(GraphEntry, graph.size, graph)
    /\ pc' = IF wpo'.panic \/ wpo'.hang THEN "panicked" ELSE "built"
    /\ panic_at' = IF wpo'.panic \/ wpo'.hang THEN "WeakPartialOrdering::new" ELSE "none"
    /\ UNCHANGED <<dataVars, graph, prog, entry_states, exit_states, context, wpo_counter,
                   worklist, count, stack, analyzed, stale, last, passes, visited>>

\* check_wpo up to its loop
CheckWpoStart ==
    /\ pc = "built"
    /\ count' = EmptyMap
    /\ stack' = <<get_entry(wpo)>>
    /\ visited' = <<>>
    /\ pc' = "replay"
    /\ UNCHANGED <<dataVars, graph, prog, wpo, entry_states, exit_states, context, wpo_counter,
                   worklist, panic_at, analyzed, stale, last, passes>>

\* the loop over get_successors(v): <<count, worklist>> after it
RECURSIVE CountSuccessors(_, _, _, _)
CountSuccessors(w, cnt, stk, succs) ==
    IF succs = {} THEN <<cnt, stk>>
    ELSE LET s == Min(succs)
             c == MapGetOr(cnt, s, 0) + 1
         IN  CountSuccessors(w, MapPut(cnt, s, c),
                             IF c = get_num_preds(w, s) THEN Append(stk, s) ELSE stk,
                             succs \ {s})

\* the assertions of one iteration that pair a head with its exit
PairingAsserts(w, v) ==
    IF is_head(w, v)
    THEN /\ v >= 1
         /\ get_node(w, get_exit_of_head(v)) = get_node(w, v)
    ELSE IF is_exit(w, v)
    THEN /\ get_head_of_exit(v) < size(w)
         /\ get_node(w, get_head_of_exit(v)) = get_node(w, v)
    ELSE TRUE

\* one iteration of "while let Some(v) = worklist.pop()"
CheckWpoStep ==
    /\ pc = "replay"
    /\ stack # <<>>
    /\ LET v == stack[Len(stack)]
           counted == CountSuccessors(wpo, count, SubSeq(stack, 1, Len(stack) - 1),
                                      get_successors(wpo, v))
       IN  /\ count' = counted[1]
           /\ stack' = counted[2]
           /\ visited' = Append(visited, v)
           /\ IF PairingAsserts(wpo, v)
              THEN UNCHANGED <<pc, panic_at>>
              ELSE pc' = "panicked" /\ panic_at' = "check_wpo: head and exit"
    /\ UNCHANGED <<dataVars, graph, prog, wpo, entry_states, exit_states, context, wpo_counter,
                   worklist, analyzed, stale, last, passes>>

\* the worklist of check_wpo is empty: its loop ends
CheckWpoReturn ==
    /\ pc = "replay"
    /\ stack = <<>>
    /\ pc' = "replayed"
    /\ UNCHANGED <<dataVars, graph, prog, wpo, entry_states, exit_states, context, wpo_counter,
                   worklist, count, stack, panic_at, analyzed, stale, last, passes,
                   visited>>

NextWpo == Build \/ CheckWpoStart \/ CheckWpoStep \/ CheckWpoReturn

SpecWpo == InitWpo /\ [][NextWpo]_vars

(***************************************************************************)
(* The Patricia trees: s = tree[1] and t = tree[2], each the root of a     *)
(* PatriciaTree<V> keyed by usize.  s is the receiver of insert, remove,   *)
(* union_with and intersect_with, t their argument; either is made a clone *)
(* of the other.  model[i] is the reference finite map of tree[i]: insert  *)
(* and remove are applied to it as to a hash map, clone copies it, and     *)
(* after union_with and intersect_with it is read back from the tree.      *)
(* called describes the last call: its name, whether it hit (insert or     *)
(* remove of a key that was present, union or intersection of two trees    *)
(* with a common key, clone of a non-empty tree), and whether the two      *)
(* trees shared a node when it was made.                                   *)
(***************************************************************************)
Keys == 0..MaxKey

\* the (key, value) pairs observable through a tree
Pairs(root) == Range(PatriciaTreeMap_iter(root))

KeySet(root) == {p[1] : p \in Pairs(root)}

MapOfPairs(P) == [k \in {p[1] : p \in P} |-> (CHOOSE p \in P : p[1] = k)[2]]

PairsOfMap(m) == {<<k, m[k]>> : k \in DOMAIN m}

Aliased(s, t) == Range(Addresses(s)) \cap Range(Addresses(t)) # {}

Call(op, hit) == [op |-> op, hit |-> hit, aliased |-> Aliased(tree[1], tree[2])]

InitPatricia == graph = MkGraph(1, <<>>) /\ InitRest

\* the root of tree i written with every root that was the same allocation
apply_root_operation_aliased(roots, i, new_root) ==
    Collect([j \in 1..2 |-> IF j = i \/ (is_some(roots[i]) /\ is_some(roots[j])
                                           /\ ptr_eq(roots[i], roots[j]))
                            THEN new_root ELSE roots[j]])

\* apply_root_operation: self.root = op(temp_root)
apply_root_operation(roots, i, new_root) == Collect([roots EXCEPT ![i] = new_root])

\* s.insert(k.into(), v)
Insert ==
    \E k \in Keys, v \in PatriciaValues :
        /\ tree' = apply_root_operation(tree, 1, PatriciaTree_insert(tree[1], BitVec_from(k), v))
        /\ model' = [model EXCEPT ![1] = MapPut(model[1], k, v)]
        /\ called' = Call("insert", k \in KeySet(tree[1]))
        /\ UNCHANGED <<iterVars, hm_env, pt_env, hm_part, pt_part, calc>>

\* s.remove(&k.into())
Remove ==
    \E k \in Keys :
        /\ tree' = apply_root_operation(tree, 1, PatriciaTree_remove(tree[1], BitVec_from(k)))
        /\ model' = [model EXCEPT ![1] = HashMap_remove(model[1], k)]
        /\ called' = Call("remove", k \in KeySet(tree[1]))
        /\ UNCHANGED <<iterVars, hm_env, pt_env, hm_part, pt_part, calc>>

\* t = s.clone(), or s = t.clone()
Clone ==
    \E i \in 1..2 :
        /\ tree' = Collect([tree EXCEPT ![3 - i] = tree[i]])
        /\ model' = [model EXCEPT ![3 - i] = model[i]]
        /\ called' = Call("clone", is_some(tree[i]))
        /\ UNCHANGED <<iterVars, hm_env, pt_env, hm_part, pt_part, calc>>

\* s.union_with(&t, f)
UnionWith ==
    \E f \in Combiners :
        /\ tree' = apply_root_operation(tree, 1, PatriciaTree_union_with(tree[1], tree[2], f))
        /\ model' = [model EXCEPT ![1] = MapOfPairs(Pairs(tree'[1]))]
        /\ called' = Call("union_with", KeySet(tree[1]) \cap KeySet(tree[2]) # {})
        /\ UNCHANGED <<iterVars, hm_env, pt_env, hm_part, pt_part, calc>>

\* s.intersect_with(&t, f)
IntersectWith ==
    \E f \in Combiners :
        /\ tree' = apply_root_operation(tree, 1, PatriciaTree_intersect_with(tree[1], tree[2], f))
        /\ model' = [model EXCEPT ![1] = MapOfPairs(Pairs(tree'[1]))]
        /\ called' = Call("intersect_with", KeySet(tree[1]) \cap KeySet(tree[2]) # {})
        /\ UNCHANGED <<iterVars, hm_env, pt_env, hm_part, pt_part, calc>>

NextPatricia == Insert \/ Remove \/ Clone \/ UnionWith \/ IntersectWith

SpecPatricia == InitPatricia /\ [][NextPatricia]_vars

(***************************************************************************)
(* The environments: one HashMapAbstractEnvironment and one                *)
(* PatriciaTreeMapAbstractEnvironment over the IntegerSet domain, given    *)
(* the same calls of set and update.                                       *)
(***************************************************************************)
EnvDomains == {Top, bottom, Value({0}), Value({1}), Value({0, 1})}

UpdateOps == [kind : {"assign", "join_with"}, arg : EnvDomains]

\* the last call: its name, its argument, and whether the variable was bound
EnvCall(op, variable, arg) ==
    [op |-> op, hit |-> hm_env.tag = "Value" /\ variable \in DOMAIN hm_env.map,
     aliased |-> FALSE, variable |-> variable, arg |-> arg]

InitEnv == graph = MkGraph(1, <<>>) /\ InitRest

\* env = top()
EnvTop ==
    /\ hm_env' = HashMapAbstractEnvironment_top
    /\ pt_env' = PatriciaTreeMapAbstractEnvironment_top
    /\ called' = EnvCall("top", 0, Top)
    /\ UNCHANGED <<iterVars, tree, model, hm_part, pt_part, calc>>

\* env.set(v, d)
EnvSet ==
    \E v \in Keys, d \in EnvDomains :
        /\ hm_env' = HashMapAbstractEnvironment_set(hm_env, v, d)
        /\ pt_env' = CollectEnv(PatriciaTreeMapAbstractEnvironment_set(pt_env, v, d))
        /\ called' = EnvCall("set", v, d)
        /\ UNCHANGED <<iterVars, tree, model, hm_part, pt_part, calc>>

\* env.update(&v, op)
EnvUpdate ==
    \E v \in Keys, op \in UpdateOps :
        /\ hm_env' = HashMapAbstractEnvironment_update(hm_env, v, op)
        /\ pt_env' = CollectEnv(PatriciaTreeMapAbstractEnvironment_update(pt_env, v, op))
        /\ called' = EnvCall("update", v, op.arg)
        /\ UNCHANGED <<iterVars, tree, model, hm_part, pt_part, calc>>

\* The environments handed to the lattice operations: top(), bottom() or a
\* clone of the receiver, on which set is then called for the variables of
\* a map m in ascending order.
RhsBases == {"top", "bottom", "clone"}

Variables == 0..MaxVariable

RhsBindings == UNION {[S -> {Value({0}), Value({1})}] : S \in SUBSET Variables}

RECURSIVE HashMapSets(_, _, _)
HashMapSets(env, m, ks) ==
    IF ks = <<>> THEN env
    ELSE HashMapSets(HashMapAbstractEnvironment_set(env, Head(ks), m[Head(ks)]), m, Tail(ks))

HashMapRhs(self, base, m) ==
    HashMapSets(CASE base = "top" -> HashMapAbstractEnvironment_top
                  [] base = "bottom" -> EnvBottom
                  [] base = "clone" -> self,
                m, SetToSeq(DOMAIN m))

EnvRoot(env) == IF env.tag = "Value" THEN env.map ELSE None

\* the nodes of self keep their addresses: they are numbered in visiting
\* order already and are visited first
RECURSIVE PatriciaSets(_, _, _, _)
PatriciaSets(self, env, m, ks) ==
    IF ks = <<>> THEN env
    ELSE LET e == PatriciaTreeMapAbstractEnvironment_set(env, Head(ks), m[Head(ks)])
         IN  PatriciaSets(self,
                          IF e.tag = "Value"
                          THEN EnvValue(Collect(<<EnvRoot(self), e.map>>)[2]) ELSE e,
                          m, Tail(ks))

PatriciaRhs(self, base, m) ==
    PatriciaSets(self,
                 CASE base = "top" -> PatriciaTreeMapAbstractEnvironment_top
                   [] base = "bottom" -> EnvBottom
                   [] base = "clone" -> self,
                 m, SetToSeq(DOMAIN m))

\* the last call of a run of lattice operations: its name, and whether the
\* argument was made from a clone of the receiver
LatticeCall(op, aliased) == [op |-> op, hit |-> FALSE, aliased |-> aliased]

\* env.join_with(rhs), env.meet_with(rhs), env.widen_with(rhs),
\* env.narrow_with(rhs)
EnvLattice ==
    \E name \in LatticeOps, base \in RhsBases, m \in RhsBindings :
        /\ hm_env.tag # "Panic" /\ pt_env.tag # "Panic"
        /\ hm_env' = HashMapAbstractEnvironment_lattice(hm_env, HashMapRhs(hm_env, base, m), name)
        /\ pt_env' = CollectEnv(PatriciaTreeMapAbstractEnvironment_lattice(
                                    pt_env, PatriciaRhs(pt_env, base, m), name))
        /\ called' = LatticeCall(name, base = "clone")
        /\ UNCHANGED <<iterVars, tree, model, hm_part, pt_part, calc>>

\* set and update between the lattice operations
LatticeSet ==
    \E v \in Variables, d \in EnvDomains :
        /\ hm_env.tag # "Panic" /\ pt_env.tag # "Panic"
        /\ hm_env' = HashMapAbstractEnvironment_set(hm_env, v, d)
        /\ pt_env' = CollectEnv(PatriciaTreeMapAbstractEnvironment_set(pt_env, v, d))
        /\ called' = LatticeCall("set", FALSE)
        /\ UNCHANGED <<iterVars, tree, model, hm_part, pt_part, calc>>

LatticeUpdate ==
    \E v \in Variables, op \in UpdateOps :
        /\ hm_env.tag # "Panic" /\ pt_env.tag # "Panic"
        /\ hm_env' = HashMapAbstractEnvironment_update(hm_env, v, op)
        /\ pt_env' = CollectEnv(PatriciaTreeMapAbstractEnvironment_update(pt_env, v, op))
        /\ called' = LatticeCall("update", FALSE)
        /\ UNCHANGED <<iterVars, tree, model, hm_part, pt_part, calc>>

NextEnv == EnvTop \/ EnvSet \/ EnvUpdate

NextEnvLattice == LatticeSet \/ LatticeUpdate \/ EnvLattice

SpecEnvLattice == InitEnv /\ [][NextEnvLattice]_vars

SpecEnv == InitEnv /\ [][NextEnv]_vars

(***************************************************************************)
(* The partitions: one HashMapAbstractPartition and one                    *)
(* PatriciaTreeMapAbstractPartition over PowersetLattice, given the same   *)
(* calls of top, bottom, set and update.                                   *)
(***************************************************************************)
PartitionDomains ==
    {PowersetTop, PowersetBottom, PowersetValue({}), PowersetValue({0}), PowersetValue({1})}

PartitionUpdateOps == [kind : {"assign", "join_with", "meet_with"}, arg : PartitionDomains]

\* the last call: its name, its label, its argument, whether the partition
\* was Top and whether the label was bound in the HashMap-backed partition
PartitionCall(op, label, arg) ==
    [op |-> op, label |-> label, arg |-> arg, top |-> hm_part.tag = "Top",
     hit |-> hm_part.tag = "Value" /\ label \in DOMAIN hm_part.map]

CollectPartition(self) ==
    IF self.tag = "Value" THEN PartitionValue(Collect(<<self.map, None>>)[1]) ELSE self

\* partition = top()
PartitionNewTop ==
    /\ hm_part' = HashMapAbstractPartition_top
    /\ pt_part' = PatriciaTreeMapAbstractPartition_top
    /\ called' = PartitionCall("top", 0, PowersetTop)
    /\ UNCHANGED <<iterVars, tree, model, hm_env, pt_env, calc>>

\* partition = bottom()
PartitionNewBottom ==
    /\ hm_part' = HashMapAbstractPartition_bottom
    /\ pt_part' = PatriciaTreeMapAbstractPartition_bottom
    /\ called' = PartitionCall("bottom", 0, PowersetTop)
    /\ UNCHANGED <<iterVars, tree, model, hm_env, pt_env, calc>>

\* partition.set(l, d)
PartitionSet ==
    \E l \in Variables, d \in PartitionDomains :
        /\ hm_part' = HashMapAbstractPartition_set(hm_part, l, d)
        /\ pt_part' = CollectPartition(PatriciaTreeMapAbstractPartition_set(pt_part, l, d))
        /\ called' = PartitionCall("set", l, d)
        /\ UNCHANGED <<iterVars, tree, model, hm_env, pt_env, calc>>

\* partition.update(&l, op)
PartitionUpdate ==
    \E l \in Variables, op \in PartitionUpdateOps :
        /\ hm_part' = HashMapAbstractPartition_update(hm_part, l, op)
        /\ pt_part' = CollectPartition(PatriciaTreeMapAbstractPartition_update(pt_part, l, op))
        /\ called' = PartitionCall("update", l, op.arg)
        /\ UNCHANGED <<iterVars, tree, model, hm_env, pt_env, calc>>

\* ---------------------------------------------------------------------
\* leq and join_with of the domains as functions of two operands: the
\* operands are drawn at the start, the actions apply the operation
\* ---------------------------------------------------------------------
SimpleKinds == {"PowersetLattice", "LiftedDomain", "DisjointUnion"}

EnvironmentKinds == {"HashMapAbstractEnvironment", "PatriciaTreeMapAbstractEnvironment"}

PartitionKinds == {"HashMapAbstractPartition", "PatriciaTreeMapAbstractPartition"}

DomainKinds == SimpleKinds \cup EnvironmentKinds \cup PartitionKinds

\* the partitions handed to join_with: top() or bottom(), on which set is
\* then called for the labels of a map m in ascending order
PartitionBases == {"top", "bottom"}

PartitionBindings ==
    UNION {[S -> {PowersetTop, PowersetValue({}), PowersetValue({0})}] :
              S \in SUBSET Variables}

RECURSIVE HashMapPartitionSets(_, _, _)
HashMapPartitionSets(p, m, ks) ==
    IF ks = <<>> THEN p
    ELSE HashMapPartitionSets(HashMapAbstractPartition_set(p, Head(ks), m[Head(ks)]),
                              m, Tail(ks))

HashMapPartition(base, m) ==
    HashMapPartitionSets(IF base = "top" THEN HashMapAbstractPartition_top
                         ELSE HashMapAbstractPartition_bottom,
                         m, SetToSeq(DOMAIN m))

PartitionRoot(p) == IF p.tag = "Value" THEN p.map ELSE None

\* the nodes of the partition other keep their addresses
RECURSIVE PatriciaPartitionSets(_, _, _, _)
PatriciaPartitionSets(other, p, m, ks) ==
    IF ks = <<>> THEN p
    ELSE LET q == PatriciaTreeMapAbstractPartition_set(p, Head(ks), m[Head(ks)])
         IN  PatriciaPartitionSets(other,
                                   IF q.tag = "Value"
                                   THEN PartitionValue(Collect(<<PartitionRoot(other), q.map>>)[2])
                                   ELSE q,
                                   m, Tail(ks))

PatriciaPartition(other, base, m) ==
    PatriciaPartitionSets(other,
                          IF base = "top" THEN PatriciaTreeMapAbstractPartition_top
                          ELSE PatriciaTreeMapAbstractPartition_bottom,
                          m, SetToSeq(DOMAIN m))

\* the pairs of operands of a domain; the two operands of a Patricia-backed
\* domain are built apart and share no node
Operands(domain) ==
    CASE domain = "PowersetLattice" -> PowersetLattice \X PowersetLattice
      [] domain = "LiftedDomain" -> LiftedDomain \X LiftedDomain
      [] domain = "DisjointUnion" -> MyUnionedDomain \X MyUnionedDomain
      [] domain = "HashMapAbstractEnvironment" ->
            {<<HashMapRhs(EnvBottom, b1, m1), HashMapRhs(EnvBottom, b2, m2)>> :
                b1 \in PartitionBases, b2 \in PartitionBases,
                m1 \in RhsBindings, m2 \in RhsBindings}
      [] domain = "PatriciaTreeMapAbstractEnvironment" ->
            {LET a == PatriciaRhs(EnvBottom, c[1], c[3])
             IN  <<a, PatriciaRhs(a, c[2], c[4])>> :
                c \in PartitionBases \X PartitionBases \X RhsBindings \X RhsBindings}
      [] domain = "HashMapAbstractPartition" ->
            {<<HashMapPartition(b1, m1), HashMapPartition(b2, m2)>> :
                b1 \in PartitionBases, b2 \in PartitionBases,
                m1 \in PartitionBindings, m2 \in PartitionBindings}
      [] domain = "PatriciaTreeMapAbstractPartition" ->
            {LET a == PatriciaPartition(PartitionTop, c[1], c[3])
             IN  <<a, PatriciaPartition(a, c[2], c[4])>> :
                c \in PartitionBases \X PartitionBases
                        \X PartitionBindings \X PartitionBindings}

\* AbstractDomain::bottom() of each domain
Domain_bottom(domain) ==
    CASE domain = "PowersetLattice" -> PowersetBottom
      [] domain = "LiftedDomain" -> LiftedDomain_bottom
      [] domain = "DisjointUnion" -> DisjointUnion_bottom
      [] domain \in EnvironmentKinds -> EnvBottom
      [] domain = "HashMapAbstractPartition" -> HashMapAbstractPartition_bottom
      [] domain = "PatriciaTreeMapAbstractPartition" -> PatriciaTreeMapAbstractPartition_bottom

\* == of each domain
Domain_eq(domain, x, y) ==
    CASE domain = "PatriciaTreeMapAbstractEnvironment" ->
            PatriciaTreeMapAbstractEnvironment_eq(x, y)
      [] domain = "PatriciaTreeMapAbstractPartition" ->
            PatriciaTreeMapAbstractPartition_eq(x, y)
      [] OTHER -> x = y

Domain_leq(domain, self, rhs) ==
    CASE domain = "PowersetLattice" -> PowersetLattice_leq(self, rhs)
      [] domain = "LiftedDomain" -> LiftedDomain_leq(self, rhs)
      [] domain = "DisjointUnion" -> DisjointUnion_leq(self, rhs)

Domain_join_with(domain, self, rhs) ==
    CASE domain = "PowersetLattice" -> PowersetLattice_join_with(self, rhs)
      [] domain = "LiftedDomain" -> LiftedDomain_join_with(self, rhs)
      [] domain = "DisjointUnion" -> DisjointUnion_join_with(self, rhs)
      [] domain = "HashMapAbstractEnvironment" ->
            HashMapAbstractEnvironment_lattice(self, rhs, "join_with")
      [] domain = "PatriciaTreeMapAbstractEnvironment" ->
            PatriciaTreeMapAbstractEnvironment_lattice(self, rhs, "join_with")
      [] domain = "HashMapAbstractPartition" ->
            HashMapAbstractPartition_lattice(self, rhs, "PowersetLattice::join_with")
      [] domain = "PatriciaTreeMapAbstractPartition" ->
            PatriciaTreeMapAbstractPartition_lattice(self, rhs, "PowersetLattice::join_with")

InitDomain ==
    /\ graph = MkGraph(1, <<>>)
    /\ InitState
    /\ \E domain \in DomainKinds : \E ab \in Operands(domain) :
           calc = [domain |-> domain, a |-> ab[1], b |-> ab[2], op |-> "none",
                   result |-> "none"]

\* a.leq(&b)
Leq ==
    /\ calc.op = "none"
    /\ calc.domain \in SimpleKinds
    /\ calc' = [calc EXCEPT !.op = "leq",
                            !.result = Domain_leq(calc.domain, calc.a, calc.b)]
    /\ UNCHANGED <<iterVars, tree, model, hm_env, pt_env, called, hm_part, pt_part>>

\* a.join(b)
Join ==
    /\ calc.op = "none"
    /\ calc' = [calc EXCEPT !.op = "join",
                            !.result = Domain_join_with(calc.domain, calc.a, calc.b)]
    /\ UNCHANGED <<iterVars, tree, model, hm_env, pt_env, called, hm_part, pt_part>>

NextDomain == Leq \/ Join

SpecDomain == InitDomain /\ [][NextDomain]_vars

NextPartition == PartitionNewTop \/ PartitionNewBottom \/ PartitionSet \/ PartitionUpdate

SpecPartition == InitEnv /\ [][NextPartition]_vars


(***************************************************************************)
(* Properties.                                                             *)
(***************************************************************************)
Vertices == 0..(size(wpo) - 1)

HasWpo == pc \notin {"init", "panicked"}

\* the non-stabilized passes among the passes s of a head
NonStable(s) == SelectSeq(s, LAMBDA x : x # "stable")

RECURSIVE JoinSet(_)
JoinSet(S) ==
    IF S = {} THEN bottom
    ELSE LET x == CHOOSE y \in S : TRUE IN join_with(x, JoinSet(S \ {x}))

\* the join, from bottom, of init_value (at the graph entry) and of
\* analyze_edge over the predecessor edges of n, on the stored exit states
JoinOfInputs(n) ==
    LET preds == predecessors(graph, n)
    IN  JoinSet({analyze_edge(preds[i], get_exit_state_at(source(preds[i]))) :
                     i \in 1..Len(preds)}
                \cup (IF n = GraphEntry THEN {context.init_value} ELSE {}))

\* C1: run terminates: a run that has started returns
C1_RunTerminates == (pc = "running") ~> (pc = "done")

\* C1 witness: a run has returned after widening at a head; the graph has
\* every node reachable from the entry
C1_Witness ==
    /\ pc = "done"
    /\ Reachable(graph) = Nodes(graph)
    /\ \E n \in DOMAIN passes : \E i \in 1..Len(passes[n]) : passes[n][i] = "widen"

\* C2: when run(init) returns the stored states are a post-fixpoint: init is
\* leq the entry state of the graph entry and, for every reachable node n
\* and predecessor edge e of n, analyze_edge(e, exit state of source(e)) is
\* leq the entry state of n
C2_PostFixpoint ==
    pc = "done" =>
        /\ leq(context.init_value, get_entry_state_at(GraphEntry))
        /\ \A n \in Reachable(graph) :
               LET preds == predecessors(graph, n)
               IN  \A i \in 1..Len(preds) :
                       leq(analyze_edge(preds[i], get_exit_state_at(source(preds[i]))),
                           get_entry_state_at(n))

\* C2 witness: run returned on a graph with a loop that needed a join and a
\* widening, from an init_value that is not bottom
C2_Witness ==
    /\ pc = "done"
    /\ context.init_value # bottom
    /\ \E n \in DOMAIN passes :
           /\ \E i \in 1..Len(passes[n]) : passes[n][i] = "join"
           /\ \E i \in 1..Len(passes[n]) : passes[n][i] = "widen"
           /\ get_entry_state_at(n) = Top

\* C3: during run the vertex about to be popped has a counter equal to its
\* get_num_preds (the assertion of process_node never fails) and no counter
\* exceeds get_num_preds
C3_CounterMatchesNumPreds ==
    /\ panic_at # "process_node: wpo_counter == num_preds"
    /\ pc = "running" =>
           /\ \A i \in Vertices : wpo_counter[i] <= get_num_preds(wpo, i)
           /\ worklist # <<>> =>
                  wpo_counter[Head(worklist)] = get_num_preds(wpo, Head(worklist))

\* C3 witness: after a non-stabilized pass that re-seeded counters through
\* num_outer_preds, a re-seeded head with predecessors is next to be popped
C3_Witness ==
    /\ pc = "running"
    /\ worklist # <<>>
    /\ \E n \in DOMAIN passes : NonStable(passes[n]) # <<>>
    /\ is_head(wpo, Head(worklist))
    /\ Head(worklist) # get_entry(wpo)
    /\ get_num_preds(wpo, Head(worklist)) > 0
    /\ \E x \in Vertices :
           /\ is_exit(wpo, x)
           /\ Head(worklist) \in DOMAIN get_num_outer_preds(wpo, x)
           /\ Len(NonStable(passes[get_node(wpo, x)])) > 0

\* C4: when the worklist of run is empty every counter is 0 (the final
\* assertion of run never fails)
C4_CountersZeroAtEnd ==
    /\ panic_at # "run: counter == 0"
    /\ (pc \in {"running", "done"} /\ worklist = <<>>) =>
           \A i \in Vertices : wpo_counter[i] = 0

\* C4 witness: run returned after non-stabilized passes, with counters
\* re-seeded through num_outer_preds, at the exits of two heads
C4_Witness ==
    /\ pc = "done"
    /\ worklist = <<>>
    /\ \E x, y \in Vertices :
           /\ x # y
           /\ is_exit(wpo, x) /\ is_exit(wpo, y)
           /\ get_num_outer_preds(wpo, x) # EmptyMap
           /\ get_num_outer_preds(wpo, y) # EmptyMap
           /\ NonStable(passes[get_node(wpo, x)]) # <<>>
           /\ NonStable(passes[get_node(wpo, y)]) # <<>>

\* a step of run() that took the non-stabilized branch at the exit of a head
NonStablePass == pc = "running" /\ passes' # passes /\ last'.kind = "extrapolated"

\* a step of run() that analyzed a Plain or Head vertex
AnalyzeStep ==
    /\ pc = "running"
    /\ worklist # <<>>
    /\ ~is_exit(wpo, Head(worklist))
    /\ analyzed' = analyzed \cup {get_node(wpo, Head(worklist))}
    /\ last'.kind = "analyze"
    /\ pc' = "running"

\* C5: within one run the first non-stabilized pass at the exit of head n
\* sets the entry state of n to current join new, and every later one to
\* current widen new, whatever stabilized passes came in between
C5_JoinThenWiden ==
    [][NonStablePass =>
           LET n == last'.node
               current_state == get_entry_state_at(n)
               new_state == JoinOfInputs(n)
           IN  entry_states'[n] =
                   IF NonStable(passes[n]) = <<>>
                   THEN join_with(current_state, new_state)
                   ELSE widen_with(current_state, new_state)]_vars

\* C5 witness: a head was joined, then stabilized, then widened
C5_Witness ==
    \E n \in DOMAIN passes :
        \E i, j, k \in 1..Len(passes[n]) :
            /\ i < j /\ j < k
            /\ passes[n][i] = "join"
            /\ passes[n][j] = "stable"
            /\ passes[n][k] = "widen"
            /\ last.kind = "extrapolated" /\ last.node = n /\ k = Len(passes[n])

\* C6 as stated: each analysis of a Plain or Head vertex of node n stores, as
\* the entry state of n, the join from bottom of init_value (at the graph
\* entry) and of analyze_edge over the predecessor edges of n, whatever
\* entry state was stored for n before
C6_EntryFromBottom ==
    [][AnalyzeStep =>
           LET n == get_node(wpo, Head(worklist))
           IN  entry_states'[n] = JoinOfInputs(n)]_vars

\* C6 amended: each analysis of a Plain or Head vertex of node n stores the
\* join of the entry state stored for n before it (bottom when none is
\* stored) with init_value (at the graph entry) and with analyze_edge over
\* the predecessor edges of n
C6_EntryAccumulates ==
    [][AnalyzeStep =>
           LET n == get_node(wpo, Head(worklist))
           IN  entry_states'[n] = join_with(get_entry_state_at(n), JoinOfInputs(n))]_vars

\* C6 witness: a node without a self loop has just been analyzed and its
\* stored entry state is not leq the join of its inputs from bottom
C6_Witness ==
    /\ pc = "running"
    /\ last.kind = "analyze"
    /\ last.node \notin Range(get_succ_nodes(graph, last.node))
    /\ ~leq(get_entry_state_at(last.node), JoinOfInputs(last.node))

\* C7: get_entry_state_at(n) and get_exit_state_at(n) are bottom for every
\* node n not analyzed since the maps were last cleared (before any run,
\* after clear, from the start of every run), and after run for every node
\* that is not reachable from the graph entry
C7_BottomWhenNotAnalyzed ==
    pc \notin {"init", "panicked"} =>
        /\ \A n \in Nodes(graph) \ analyzed :
               get_entry_state_at(n) = bottom /\ get_exit_state_at(n) = bottom
        /\ pc = "done" =>
               \A n \in Nodes(graph) \ Reachable(graph) :
                   get_entry_state_at(n) = bottom /\ get_exit_state_at(n) = bottom

\* C7 witness: inside a later run, a node that held a state other than
\* bottom when the run started has not been analyzed yet, and a node is not
\* reachable from the entry
C7_Witness ==
    /\ pc = "running"
    /\ analyzed # {}
    /\ stale \ analyzed # {}
    /\ Nodes(graph) \ Reachable(graph) # {}

\* the vertices of kind ty that stand for graph node n
VerticesOf(ty, n) == {i \in Vertices : wpo.nodes[i].ty = ty /\ get_node(wpo, i) = n}

\* C8: in a built WPO heads and exits are paired by index: after an Exit x
\* comes, at x + 1, a Head of the same node; before a Head h comes, at
\* h - 1, an Exit of the same node; no node has two heads or two exits; and
\* get_exit_of_head(get_head_of_exit(x)) = x
C8_HeadExitPaired ==
    HasWpo =>
        /\ \A x \in Vertices :
               is_exit(wpo, x) =>
                   /\ get_head_of_exit(x) \in Vertices
                   /\ is_head(wpo, get_head_of_exit(x))
                   /\ get_node(wpo, get_head_of_exit(x)) = get_node(wpo, x)
                   /\ get_exit_of_head(get_head_of_exit(x)) = x
        /\ \A h \in Vertices :
               is_head(wpo, h) =>
                   /\ get_exit_of_head(h) \in Vertices
                   /\ is_exit(wpo, get_exit_of_head(h))
                   /\ get_node(wpo, get_exit_of_head(h)) = get_node(wpo, h)
        /\ \A n \in Nodes(graph) :
               /\ Cardinality(VerticesOf("Head", n)) <= 1
               /\ Cardinality(VerticesOf("Head", n)) = Cardinality(VerticesOf("Exit", n))
        /\ panic_at # "check_wpo: head and exit"

\* C8 witness: check_wpo has popped the head and the exit of two components
C8_Witness ==
    /\ pc = "replayed"
    /\ \E x, y \in Range(visited) :
           /\ x # y
           /\ is_exit(wpo, x) /\ is_exit(wpo, y)
           /\ get_head_of_exit(x) \in Range(visited)
           /\ get_head_of_exit(y) \in Range(visited)

\* C9: in a built WPO get_entry() is the Plain or Head vertex of the root
\* node and has no predecessors, also when the root lies on a cycle
C9_EntryIsRoot ==
    HasWpo =>
        /\ get_entry(wpo) \in Vertices
        /\ ~is_exit(wpo, get_entry(wpo))
        /\ get_node(wpo, get_entry(wpo)) = GraphEntry
        /\ get_num_preds(wpo, get_entry(wpo)) = 0
        /\ get_predecessors(wpo, get_entry(wpo)) = {}

\* C9 witness: the root lies on a cycle through another node, and its WPO
\* vertex is the entry
C9_Witness ==
    /\ pc = "built"
    /\ is_head(wpo, get_entry(wpo))
    /\ \E n \in Reachable(graph) \ {GraphEntry} :
           GraphEntry \in Range(get_succ_nodes(graph, n))

\* C10: the replay of check_wpo pops no vertex twice and, when its worklist
\* is empty, has popped every vertex of the WPO; the entry is the only
\* vertex without predecessors
C10_ReplayOncePerVertex ==
    pc \in {"replay", "replayed"} =>
        /\ \A i, j \in 1..Len(visited) : visited[i] = visited[j] => i = j
        /\ pc = "replayed" => Range(visited) = Vertices
        /\ \A v \in Vertices : get_num_preds(wpo, v) = 0 <=> v = get_entry(wpo)

\* C10 witness: the replay of a WPO with a nested component has ended
C10_Witness ==
    /\ pc = "replayed"
    /\ Len(visited) = size(wpo)
    /\ \E x \in Vertices :
           /\ is_exit(wpo, x)
           /\ \E v \in DOMAIN get_num_outer_preds(wpo, x) : v # get_head_of_exit(x)

\* the root is the target of an edge of the graph
RootHasPredecessor ==
    \E n \in Nodes(graph) : GraphEntry \in Range(get_succ_nodes(graph, n))

\* the root is the target of an edge whose source is reachable from it
RootOnCycle ==
    \E n \in Reachable(graph) : GraphEntry \in Range(get_succ_nodes(graph, n))

WpoNodes == {get_node(wpo, i) : i \in Vertices}

\* the Plain or Head vertex of node n
MainVertex(n) == CHOOSE i \in Vertices : get_node(wpo, i) = n /\ ~is_exit(wpo, i)

\* the nodes reachable from S, forwards or backwards, through nodes of A
RECURSIVE ReachWithin(_, _, _)
ReachWithin(S, A, forwards) ==
    LET more == {n \in A \ S :
                    \E m \in S : IF forwards THEN n \in Range(get_succ_nodes(graph, m))
                                 ELSE m \in Range(get_succ_nodes(graph, n))}
    IN  IF more = {} THEN S ELSE ReachWithin(S \cup more, A, forwards)

\* the nodes of the component headed by head vertex h: the strongly
\* connected component of its node among the nodes numbered no earlier by
\* the depth-first search (Plain and Head vertices are pushed in descending
\* depth-first number)
ComponentNodes(h) ==
    LET A == {n \in WpoNodes : MainVertex(n) <= h}
    IN  ReachWithin({get_node(wpo, h)}, A, TRUE)
            \cap ReachWithin({get_node(wpo, h)}, A, FALSE)

\* the vertices of the component of exit x
ComponentVertices(x) ==
    {i \in Vertices : get_node(wpo, i) \in ComponentNodes(get_head_of_exit(x))}

\* C12: for every Exit x of a built WPO and every vertex v of its component
\* C, get_num_outer_preds(x) maps v to the number of scheduling predecessors
\* of v outside C, has no entry for v when there is none, and has no entry
\* for a vertex outside C
C12_NumOuterPreds ==
    HasWpo =>
        \A x \in Vertices :
            is_exit(wpo, x) =>
                LET C == ComponentVertices(x)
                    nop == get_num_outer_preds(wpo, x)
                IN  /\ DOMAIN nop \subseteq C
                    /\ \A v \in C :
                           LET k == Cardinality(get_predecessors(wpo, v) \ C)
                           IN  IF k = 0 THEN v \notin DOMAIN nop
                               ELSE v \in DOMAIN nop /\ nop[v] = k

\* C12 witness: a built WPO in which an exit counts, for a vertex nested
\* under another head of its component, predecessors outside the component
C12_Witness ==
    /\ pc = "built"
    /\ \E x \in Vertices :
           /\ is_exit(wpo, x)
           /\ \E v \in DOMAIN get_num_outer_preds(wpo, x) :
                  /\ v # get_head_of_exit(x)
                  /\ \E y \in Vertices \ {x} :
                         is_exit(wpo, y) /\ v \in DOMAIN get_num_outer_preds(wpo, y)

\* C13: in a built WPO, for every head node h and every predecessor p of h
\* in the graph that is reachable from the root, is_from_outside(h, p) is
\* true exactly when p is not in the component headed by h
C13_FromOutside ==
    HasWpo =>
        \A h \in Vertices :
            is_head(wpo, h) =>
                \A p \in Reachable(graph) :
                    get_node(wpo, h) \in Range(get_succ_nodes(graph, p)) =>
                        (is_from_outside(wpo, get_node(wpo, h), p)
                             <=> p \notin ComponentNodes(h))

\* C13 witness: a head with a self loop, a back edge from another node of
\* its component, and a predecessor outside the component
C13_Witness ==
    /\ pc = "built"
    /\ \E h \in Vertices :
           /\ is_head(wpo, h)
           /\ LET n == get_node(wpo, h)
                  preds == {p \in Reachable(graph) : n \in Range(get_succ_nodes(graph, p))}
              IN  /\ n \in preds
                  /\ (preds \cap ComponentNodes(h)) \ {n} # {}
                  /\ preds \ ComponentNodes(h) # {}

\* C14: get, contains_key and len of each tree agree with its reference
\* finite map, to which insert and remove were applied as to a hash map:
\* insert of a new key adds it, insert of an existing key replaces its value,
\* remove deletes only its key, remove of an absent key changes nothing
C14_AgreesWithReference ==
    \A i \in 1..2 :
        /\ \A k \in Keys :
               /\ PatriciaTree_get(tree[i], BitVec_from(k))
                      = IF k \in DOMAIN model[i] THEN <<model[i][k]>> ELSE <<>>
               /\ PatriciaTree_contains_key(tree[i], BitVec_from(k)) <=> k \in DOMAIN model[i]
        /\ PatriciaTree_len(tree[i]) = Cardinality(DOMAIN model[i])

\* C14 witness: an insert of a key that was present, into a tree of at
\* least three keys
C14_Witness ==
    /\ called.op = "insert"
    /\ called.hit
    /\ PatriciaTree_len(tree[1]) >= 3

\* the calls that change their receiver s
Mutations == {"insert", "remove", "union_with", "intersect_with"}

\* C15: every insert, remove, union_with and intersect_with applied to one
\* tree leaves the (key, value) pairs observable through the other tree
\* unchanged, whether the other tree is the clone or the tree cloned from
C15_CloneIndependent ==
    [][called'.op \in Mutations => Pairs(tree'[2]) = Pairs(tree[2])]_vars

\* C15 witness: a call changed s while s and t shared nodes; the two trees
\* now differ, t has at least two keys, and they still share a node
C15_Witness ==
    /\ called.op \in Mutations
    /\ called.aliased
    /\ Pairs(tree[1]) # Pairs(tree[2])
    /\ PatriciaTree_len(tree[2]) >= 2
    /\ Aliased(tree[1], tree[2])

\* the map a tree holds
MapOf(root) == MapOfPairs(Pairs(root))

\* C16: for s, t and every combiner f, after s.union_with(t, f) the key set
\* of s is the union of both key sets, a key of only one tree keeps its
\* value, and a key of both has the value f(value in s, value in t)
C16_UnionCombines ==
    \A f \in Combiners :
        LET ms == MapOf(tree[1])
            mt == MapOf(tree[2])
            mr == MapOf(PatriciaTree_union_with(tree[1], tree[2], f))
        IN  /\ DOMAIN mr = DOMAIN ms \cup DOMAIN mt
            /\ \A k \in DOMAIN mr :
                   mr[k] = IF k \in DOMAIN ms /\ k \in DOMAIN mt
                           THEN value_op(f, ms[k], mt[k])
                           ELSE IF k \in DOMAIN ms THEN ms[k] ELSE mt[k]

\* key k is held by s and by t in one and the same leaf
SharedLeaf(k) ==
    LET s_leaf == find_leaf_by_key(tree[1], BitVec_from(k))
        t_leaf == find_leaf_by_key(tree[2], BitVec_from(k))
    IN  is_some(s_leaf) /\ is_some(t_leaf) /\ ptr_eq(s_leaf, t_leaf)

\* C17 as stated: for s, t and every combiner f, after s.intersect_with(t, f)
\* the key set of s is the intersection of both key sets and every remaining
\* key has the value f(value in s, value in t)
C17_IntersectCombines ==
    \A f \in Combiners :
        LET ms == MapOf(tree[1])
            mt == MapOf(tree[2])
            mr == MapOf(PatriciaTree_intersect_with(tree[1], tree[2], f))
        IN  /\ DOMAIN mr = DOMAIN ms \cap DOMAIN mt
            /\ \A k \in DOMAIN mr : mr[k] = value_op(f, ms[k], mt[k])

\* C17 amended: the key set of the result is the intersection (empty when
\* the key sets are disjoint or a tree is empty); a remaining key held in
\* different leaves by s and t has the value f(value in s, value in t); a
\* key held in one shared leaf keeps its value v or gets f(v, v)
C17_IntersectCombinesUnshared ==
    \A f \in Combiners :
        LET ms == MapOf(tree[1])
            mt == MapOf(tree[2])
            r == PatriciaTree_intersect_with(tree[1], tree[2], f)
            mr == MapOf(r)
        IN  /\ DOMAIN mr = DOMAIN ms \cap DOMAIN mt
            /\ DOMAIN ms \cap DOMAIN mt = {} => ~is_some(r)
            /\ \A k \in DOMAIN mr :
                   IF SharedLeaf(k)
                   THEN mr[k] \in {ms[k], value_op(f, ms[k], ms[k])}
                   ELSE mr[k] = value_op(f, ms[k], mt[k])

\* C17 witness: an intersect_with of two trees that had a common key and
\* shared a node has left s at least two keys, one of them with a value
\* other than its value in t
C17_Witness ==
    /\ called.op = "intersect_with"
    /\ called.hit
    /\ called.aliased
    /\ PatriciaTree_len(tree[1]) >= 2
    /\ \E k \in KeySet(tree[1]) : MapOf(tree[1])[k] # MapOf(tree[2])[k]

\* C18: for the two trees, in either order, subset_of is true exactly when
\* every key of the first is a key of the second; the empty tree is a subset
\* of every tree and a non-empty tree is never a subset of the empty tree
C18_SubsetOf ==
    \A i \in 1..2 :
        LET s == tree[i]
            t == tree[3 - i]
        IN  /\ PatriciaTree_subset_of(s, t) <=> KeySet(s) \subseteq KeySet(t)
            /\ ~is_some(s) => PatriciaTree_subset_of(s, t)
            /\ is_some(s) /\ ~is_some(t) => ~PatriciaTree_subset_of(s, t)

\* C18 witness: s and t are branches with different prefixes that share no
\* node, the keys of s are some but not all of the keys of t, and
\* s.subset_of(t) answers true
C18_Witness ==
    /\ tree[1].tag = "Branch"
    /\ tree[2].tag = "Branch"
    /\ tree[1].prefix # tree[2].prefix
    /\ ~Aliased(tree[1], tree[2])
    /\ KeySet(tree[1]) \subseteq KeySet(tree[2])
    /\ KeySet(tree[1]) # KeySet(tree[2])
    /\ PatriciaTree_subset_of(tree[1], tree[2])

\* the shape of a trie: its nodes without their addresses and values
RECURSIVE Shape(_)
Shape(node) ==
    IF node.tag = "Leaf" THEN [tag |-> "Leaf", key |-> node.key]
    ELSE IF node.tag = "Branch"
    THEN [tag |-> "Branch", prefix |-> node.prefix,
          left |-> Shape(node.left), right |-> Shape(node.right)]
    ELSE node

\* C19: the two trees are equal exactly when they hold the same (key, value)
\* pairs, whatever calls produced them; their shapes are the same whenever
\* their key sets are; and inserting a key that is absent and then removing
\* it gives a tree equal to the original
C19_EqualIffSamePairs ==
    /\ PatriciaTree_eq(tree[1], tree[2]) <=> Pairs(tree[1]) = Pairs(tree[2])
    /\ KeySet(tree[1]) = KeySet(tree[2]) => Shape(tree[1]) = Shape(tree[2])
    /\ \A k \in Keys \ KeySet(tree[1]), v \in PatriciaValues :
           PatriciaTree_eq(PatriciaTree_remove(PatriciaTree_insert(tree[1], BitVec_from(k), v),
                                                BitVec_from(k)),
                           tree[1])

\* C19 witness: after a remove of a key that was present, s and t hold the
\* same pairs, at least two, in nodes of their own, and compare equal
C19_Witness ==
    /\ called.op = "remove"
    /\ called.hit
    /\ ~Aliased(tree[1], tree[2])
    /\ PatriciaTree_len(tree[1]) >= 2
    /\ PatriciaTree_eq(tree[1], tree[2])

\* the variables bindings() shows, none for Bottom
HashMapBound(env) ==
    LET b == HashMapAbstractEnvironment_bindings(env)
    IN  IF b = <<>> THEN {} ELSE DOMAIN b[1]

PatriciaTreeMapBound(env) ==
    LET b == PatriciaTreeMapAbstractEnvironment_bindings(env)
    IN  IF b = <<>> THEN {} ELSE KeySet(b[1])

\* the contract of set, update and get on one environment
SetContract(env, get(_, _), set(_, _, _), update(_, _, _), bound(_)) ==
    \A v \in Keys :
        IF env.tag = "Value"
        THEN /\ LET e == set(env, v, Top)
                IN  e.tag = "Value" /\ get(e, v) = Top /\ v \notin bound(e)
             /\ set(env, v, bottom).tag = "Bottom"
             /\ \A d \in EnvDomains \ {Top, bottom} :
                    LET e == set(env, v, d)
                    IN  /\ e.tag = "Value"
                        /\ get(e, v) = d
                        /\ v \in bound(e)
                        /\ \A w \in Keys \ {v} :
                               get(e, w) = get(env, w) /\ (w \in bound(e) <=> w \in bound(env))
        ELSE /\ \A d \in EnvDomains : set(env, v, d) = env
             /\ \A op \in UpdateOps : update(env, v, op) = env
             /\ get(env, v) = bottom

\* C20: for both environments: on a Value environment set(v, top) removes
\* the binding of v (get(v) is top, v is not in bindings()), set(v, bottom)
\* makes the environment Bottom, set with another value binds v to it and
\* changes no other variable; on a Bottom environment set and update change
\* nothing and get returns bottom
C20_SetContract ==
    /\ SetContract(hm_env, HashMapAbstractEnvironment_get, HashMapAbstractEnvironment_set,
                   HashMapAbstractEnvironment_update, HashMapBound)
    /\ SetContract(pt_env, PatriciaTreeMapAbstractEnvironment_get,
                   PatriciaTreeMapAbstractEnvironment_set,
                   PatriciaTreeMapAbstractEnvironment_update, PatriciaTreeMapBound)

\* C20 witness: set(v, top) was called on a variable that was bound, and
\* both environments still bind two other variables
C20_Witness ==
    /\ called.op = "set"
    /\ called.hit
    /\ called.arg = Top
    /\ Cardinality(HashMapBound(hm_env)) >= 2
    /\ PatriciaTreeMapBound(pt_env) = HashMapBound(hm_env)
    /\ called.variable \notin HashMapBound(hm_env)

\* what a user can see of an environment: its kind, the variables
\* bindings() shows, and what get answers for every variable
Observed(env, get(_, _), bound(_)) ==
    [tag |-> env.tag, bound |-> bound(env), get |-> [v \in Keys |-> get(env, v)]]

\* the contract of join and meet on one Value environment a and every
\* Value environment b that set can build
JoinMeetContract(a, lattice(_, _, _), rhs(_, _, _), get(_, _), bound(_)) ==
    a.tag = "Value" =>
        \A base \in {"top", "clone"}, m \in RhsBindings :
            LET b == rhs(a, base, m)
                j == lattice(a, b, "join_with")
                mt == lattice(a, b, "meet_with")
                joined == [v \in bound(a) \cap bound(b) |-> join_with(get(a, v), get(b, v))]
                met == [v \in bound(a) \cup bound(b) |->
                           IF v \notin bound(b) THEN get(a, v)
                           ELSE IF v \notin bound(a) THEN get(b, v)
                           ELSE meet_with(get(a, v), get(b, v))]
            IN  /\ j.tag = "Value"
                /\ bound(j) = {v \in DOMAIN joined : ~is_top(joined[v])}
                /\ \A v \in bound(j) : get(j, v) = joined[v]
                /\ IF \E v \in DOMAIN met : is_bottom(met[v]) THEN mt.tag = "Bottom"
                   ELSE /\ mt.tag = "Value"
                        /\ bound(mt) = DOMAIN met
                        /\ \A v \in bound(mt) : get(mt, v) = met[v]

NoExplicitExtreme(env, get(_, _), bound(_)) ==
    \A v \in bound(env) : ~is_top(get(env, v)) /\ ~is_bottom(get(env, v))

\* C21: for both environments, join binds the variables bound in both to
\* the join of their values and drops those joined to top; meet binds the
\* variables bound in either to the meet of their values and is Bottom when
\* a meet is bottom; so no reachable Value environment binds a variable to
\* top or bottom, and the two environments stay observably equal
C21_JoinMeetContract ==
    /\ JoinMeetContract(hm_env, HashMapAbstractEnvironment_lattice, HashMapRhs,
                        HashMapAbstractEnvironment_get, HashMapBound)
    /\ JoinMeetContract(pt_env, PatriciaTreeMapAbstractEnvironment_lattice, PatriciaRhs,
                        PatriciaTreeMapAbstractEnvironment_get, PatriciaTreeMapBound)
    /\ NoExplicitExtreme(hm_env, HashMapAbstractEnvironment_get, HashMapBound)
    /\ NoExplicitExtreme(pt_env, PatriciaTreeMapAbstractEnvironment_get, PatriciaTreeMapBound)
    /\ Observed(hm_env, HashMapAbstractEnvironment_get, HashMapBound)
           = Observed(pt_env, PatriciaTreeMapAbstractEnvironment_get, PatriciaTreeMapBound)

\* the HashMap-backed half of C21 on its own
C21_HashMapOnly ==
    /\ JoinMeetContract(hm_env, HashMapAbstractEnvironment_lattice, HashMapRhs,
                        HashMapAbstractEnvironment_get, HashMapBound)
    /\ NoExplicitExtreme(hm_env, HashMapAbstractEnvironment_get, HashMapBound)

\* a Top partition under every call of set, update and get
TopContract(p, get(_, _), set(_, _, _), update(_, _, _)) ==
    p.tag = "Top" =>
        \A l \in Variables :
            /\ \A d \in PartitionDomains : set(p, l, d) = p
            /\ \A op \in PartitionUpdateOps : update(p, l, op) = p
            /\ get(p, l) = PowersetTop

\* C22: for both partitions, a Top partition stays Top under set(l, d) and
\* update(l, op) for every label, value (bottom included) and op, and
\* get(l) returns top for every label
C22_TopStaysTop ==
    /\ TopContract(hm_part, HashMapAbstractPartition_get, HashMapAbstractPartition_set,
                   HashMapAbstractPartition_update)
    /\ TopContract(pt_part, PatriciaTreeMapAbstractPartition_get,
                   PatriciaTreeMapAbstractPartition_set,
                   PatriciaTreeMapAbstractPartition_update)
    /\ (called.op \in {"set", "update"} /\ called.top) =>
           hm_part.tag = "Top" /\ pt_part.tag = "Top"

\* C22 witness: update with an op that assigns a set was called on a Top
\* partition
C22_Witness ==
    /\ called.op = "update"
    /\ called.top
    /\ called.arg = PowersetValue({0})
    /\ hm_part.tag = "Top"
    /\ pt_part.tag = "Top"

\* the labels bindings() shows, none for Top
HashMapLabels(p) ==
    LET b == HashMapAbstractPartition_bindings(p)
    IN  IF b = <<>> THEN {} ELSE DOMAIN b[1]

PatriciaTreeMapLabels(p) ==
    LET b == PatriciaTreeMapAbstractPartition_bindings(p)
    IN  IF b = <<>> THEN {} ELSE KeySet(b[1])

\* a Value partition under update, and its bindings to bottom
ValueContract(p, get(_, _), set(_, _, _), update(_, _, _), labels(_), is_bot(_), eq(_, _)) ==
    p.tag = "Value" =>
        /\ \A l \in labels(p) : ~PowersetLattice_is_bottom(get(p, l))
        /\ \A l \in Variables, op \in PartitionUpdateOps :
               eq(update(p, l, op), set(p, l, PartitionUpdateOp(op, get(p, l))))
        /\ is_bot(p) <=> \A l \in Variables : PowersetLattice_is_bottom(get(p, l))

HashMapAbstractPartition_eq(self, rhs) == self = rhs

\* C23: for both partitions, no label of a Value partition is bound to
\* bottom after any calls of set and update; update(l, op) gives the
\* partition set(l, op(get(l))) gives; and is_bottom() holds exactly when
\* every label maps to bottom
C23_NoBindingToBottom ==
    /\ ValueContract(hm_part, HashMapAbstractPartition_get, HashMapAbstractPartition_set,
                     HashMapAbstractPartition_update, HashMapLabels,
                     HashMapAbstractPartition_is_bottom, HashMapAbstractPartition_eq)
    /\ ValueContract(pt_part, PatriciaTreeMapAbstractPartition_get,
                     PatriciaTreeMapAbstractPartition_set,
                     PatriciaTreeMapAbstractPartition_update, PatriciaTreeMapLabels,
                     PatriciaTreeMapAbstractPartition_is_bottom,
                     PatriciaTreeMapAbstractPartition_eq)

\* the Patricia-backed half of C23 on its own
C23_PatriciaOnly ==
    ValueContract(pt_part, PatriciaTreeMapAbstractPartition_get,
                  PatriciaTreeMapAbstractPartition_set,
                  PatriciaTreeMapAbstractPartition_update, PatriciaTreeMapLabels,
                  PatriciaTreeMapAbstractPartition_is_bottom,
                  PatriciaTreeMapAbstractPartition_eq)

\* ---------------------------------------------------------------------
\* DisjointUnion
\* ---------------------------------------------------------------------
AcrossVariants ==
    /\ calc.domain = "DisjointUnion"
    /\ calc.op = "leq"
    /\ calc.a.variant # calc.b.variant

\* C24, as stated: a.leq(b) of a domain derived with DisjointUnion is false
\* whenever a and b are of different variants, whatever their inner values.
C24_LeqAcrossVariantsFalse == AcrossVariants => calc.result = FALSE

\* C24, amended: for a and b of different variants a.leq(b) is true exactly
\* when the inner value of a is bottom, or the inner value of b is top and
\* not bottom; it is false for all other inner values.
C24_LeqAcrossVariants ==
    AcrossVariants =>
        calc.result = (\/ PowersetLattice_is_bottom(calc.a.dom)
                       \/ /\ ~PowersetLattice_is_bottom(calc.b.dom)
                          /\ PowersetLattice_is_top(calc.b.dom))

\* two values of different variants whose inner values are ordered
C24_Witness ==
    /\ AcrossVariants
    /\ calc.a = Variant("FirstCase", PowersetValue({0}))
    /\ calc.b = Variant("SecondCase", PowersetValue({0, 1}))
    /\ calc.result = FALSE

\* ---------------------------------------------------------------------
\* bottom and join
\* ---------------------------------------------------------------------
BottomIdentity(domains) ==
    (calc.domain \in domains /\ calc.op = "join") =>
        /\ Domain_eq(calc.domain, calc.b, Domain_bottom(calc.domain))
              => Domain_eq(calc.domain, calc.result, calc.a)
        /\ Domain_eq(calc.domain, calc.a, Domain_bottom(calc.domain))
              => Domain_eq(calc.domain, calc.result, calc.b)

\* C25: in every domain, a.join(bottom()) == a and bottom().join(a) == a for
\* every element a, bottom() being the value the bottom constructor returns.
C25_BottomIdentityOfJoin == BottomIdentity(DomainKinds)

\* the same of the domains other than the derived one
C25_OtherDomains == BottomIdentity(DomainKinds \ {"DisjointUnion"})

\* ---------------------------------------------------------------------
\* well-formed branches
\* ---------------------------------------------------------------------
RECURSIVE NodesOf(_)
NodesOf(node) ==
    IF node.tag = "Branch" THEN {node} \cup NodesOf(node.left) \cup NodesOf(node.right)
    ELSE IF node.tag = "None" THEN {}
    ELSE {node}

LeafKeys(node) == {n.key : n \in {l \in NodesOf(node) : l.tag = "Leaf"}}

\* prefix is the longest common prefix of the keys beneath the branch, the
\* keys of left have bit 0 and those of right bit 1 at position prefix.len,
\* and at least two distinct leaves are beneath it
WellFormedBranch(node) ==
    /\ node.prefix.len < POINTER_SIZE_IN_BITS
    /\ node.prefix.bits = MaskBits(node.prefix.bits, node.prefix.len)
    /\ \A k \in LeafKeys(node) : k.len = POINTER_SIZE_IN_BITS /\ begins_with(k, node.prefix)
    /\ LeafKeys(node.left) # {} /\ LeafKeys(node.right) # {}
    /\ \A k \in LeafKeys(node.left) : ~BitVec_get(k, node.prefix.len)
    /\ \A k \in LeafKeys(node.right) : BitVec_get(k, node.prefix.len)
    /\ Cardinality(LeafKeys(node)) >= 2

\* no assertion of make_branch has failed
NoPanic(root) == \A n \in NodesOf(root) : n.tag # "Panic"

\* the index of every get the next call can make is below the length: a
\* key is looked up at prefix.len of a branch, and a prefix at the length
\* of a different prefix it begins with
GetInBounds(s, t) ==
    /\ \A n \in NodesOf(s) \cup NodesOf(t) :
           n.tag = "Branch" => n.prefix.len < POINTER_SIZE_IN_BITS
    /\ \A n \in NodesOf(s), m \in NodesOf(t) :
           (n.tag = "Branch" /\ m.tag = "Branch" /\ n.prefix # m.prefix) =>
               /\ begins_with(m.prefix, n.prefix) => n.prefix.len < m.prefix.len
               /\ begins_with(n.prefix, m.prefix) => m.prefix.len < n.prefix.len

\* C26: after any sequence of insert, remove, union_with and intersect_with
\* every Branch of a tree is well formed (longest common prefix, bit 0 on
\* the left and bit 1 on the right at position prefix.len, at least two
\* distinct leaves), no assertion of make_branch has failed and no get of
\* the next call is out of bounds
C26_BranchesWellFormed ==
    /\ \A i \in 1..2 :
           /\ NoPanic(tree[i])
           /\ \A n \in NodesOf(tree[i]) : n.tag = "Branch" => WellFormedBranch(n)
    /\ GetInBounds(tree[1], tree[2])

\* C26 witness: a union of two trees that share no node has built a tree of
\* three keys, a branch beneath a branch
C26_Witness ==
    /\ called.op = "union_with"
    /\ ~called.aliased
    /\ called.hit
    /\ PatriciaTree_len(tree[1]) >= 3
    /\ PatriciaTree_len(tree[2]) >= 2
    /\ \E n \in NodesOf(tree[1]) :
           n.tag = "Branch" /\ (n.left.tag = "Branch" \/ n.right.tag = "Branch")

\* ---------------------------------------------------------------------
\* the exit of a loop and the vertices scheduled after it
\* ---------------------------------------------------------------------
\* the step that processes the exit at the front of the worklist
ExitStep ==
    /\ pc = "running"
    /\ worklist # <<>>
    /\ is_exit(wpo, Head(worklist))
    /\ passes' # passes

Occurrences(seq, v) == Cardinality({i \in DOMAIN seq : seq[i] = v})

\* the WPO successors of exit x whose counter the step changes or that the
\* step pushes on the worklist
Touched(x) ==
    {s \in get_successors(wpo, x) :
        \/ wpo_counter'[s] # wpo_counter[s]
        \/ Occurrences(worklist', s) # Occurrences(Tail(worklist), s)}

\* the exits that have idx among their WPO successors
ExitsBefore(idx) ==
    {x \in 0..(size(wpo) - 1) : is_exit(wpo, x) /\ idx \in get_successors(wpo, x)}

\* C27: a step that processes an exit and finds its head not stabilized
\* changes the counter of no WPO successor of the exit and enqueues none; a
\* step that processes an exit and touches a successor found the head
\* stabilized; and a vertex scheduled after a loop is analyzed only when the
\* last pass of that loop was a stabilized one
C27_ExitHoldsSuccessors ==
    /\ [][ExitStep =>
              /\ last'.kind = "extrapolated" => Touched(Head(worklist)) = {}
              /\ Touched(Head(worklist)) # {} => last'.kind = "stabilized"]_vars
    /\ [](last.kind = "analyze" =>
              \A x \in ExitsBefore(last.idx) :
                  LET s == passes[get_node(wpo, get_head_of_exit(x))]
                  IN  s # <<>> /\ s[Len(s)] = "stable")

\* C27 witness: the exit of a loop with a vertex scheduled after it has
\* been processed with its head not stabilized, and run() goes on
C27_Witness ==
    /\ pc = "running"
    /\ last.kind = "extrapolated"
    /\ get_successors(wpo, last.idx) # {}
    /\ \A s \in get_successors(wpo, last.idx) : wpo_counter[s] < get_num_preds(wpo, s)

\* ---------------------------------------------------------------------
\* the passes of a component
\* ---------------------------------------------------------------------
\* the positions in visited at which run() popped vertex v
Positions(v) == {i \in 1..Len(visited) : visited[i] = v}

\* C28: within one run, between two consecutive analyses of a head h every
\* vertex of the component of h is processed at least once and the exit of
\* h exactly once; and the exit of h is processed only after every vertex
\* of the component (the sources of the back edges into h among them) has
\* been processed since the last analysis of h
C28_PassCoversComponent ==
    HasWpo =>
        \A h \in {v \in Vertices : is_head(wpo, v)} :
            LET x == get_exit_of_head(h)
                component == ComponentVertices(x)
            IN  /\ \A i \in Positions(h), j \in Positions(h) :
                       (i < j /\ Positions(h) \cap ((i + 1)..(j - 1)) = {}) =>
                           /\ component \ {h} \subseteq {visited[k] : k \in (i + 1)..(j - 1)}
                           /\ Cardinality(Positions(x) \cap ((i + 1)..(j - 1))) = 1
                /\ \A k \in Positions(x) :
                       \E i \in Positions(h) :
                           /\ i < k
                           /\ Positions(h) \cap ((i + 1)..k) = {}
                           /\ component \ {x} \subseteq {visited[m] : m \in i..(k - 1)}

\* C28 witness: a head with two sources of back edges in its component has
\* been analyzed three times in one run
C28_Witness ==
    /\ pc = "running"
    /\ \E h \in {v \in Vertices : is_head(wpo, v)} :
           /\ Cardinality(Positions(h)) >= 3
           /\ Cardinality({p \in ComponentNodes(h) :
                               get_node(wpo, h) \in Range(get_succ_nodes(graph, p))}) >= 2

\* ---------------------------------------------------------------------
\* heads on cycles
\* ---------------------------------------------------------------------
\* the nodes that have a Head vertex
HeadNodes == {get_node(wpo, i) : i \in {v \in Vertices : is_head(wpo, v)}}

\* the nodes of A with an edge to themselves or on a longer cycle within A
CycleNodes(A) ==
    {n \in A : \E m \in A \cap Range(get_succ_nodes(graph, n)) :
                   n \in ReachWithin({m}, A, TRUE)}

\* C29: every cycle among the nodes reachable from the root holds a node
\* with a Head vertex (no cycle runs through nodes without one), each
\* reachable node has exactly one Plain or Head vertex, and size() is the
\* number of reachable nodes plus the number of heads
C29_HeadOnEveryCycle ==
    HasWpo =>
        /\ CycleNodes(Reachable(graph) \ HeadNodes) = {}
        /\ \A n \in Reachable(graph) :
               Cardinality({i \in Vertices : get_node(wpo, i) = n /\ ~is_exit(wpo, i)}) = 1
        /\ size(wpo) = Cardinality(Reachable(graph))
                          + Cardinality({v \in Vertices : is_head(wpo, v)})

\* C29 witness: a built WPO of a graph with a self-loop on one reachable
\* node and a longer cycle through other nodes, with two heads
C29_Witness ==
    /\ pc = "built"
    /\ Cardinality(HeadNodes) >= 2
    /\ \E n \in Reachable(graph) :
           /\ n \in Range(get_succ_nodes(graph, n))
           /\ CycleNodes(Reachable(graph) \ {n}) # {}

\* ---------------------------------------------------------------------
\* the states run() leaves
\* ---------------------------------------------------------------------
\* exit_states[n] is analyze_node applied to entry_states[n]
ExitOfEntry(n) ==
    get_state_at_or_bottom(exit_states, n)
        = analyze_node(prog, n, get_state_at_or_bottom(entry_states, n))

\* C30, as stated: when run returns, exit_states[n] is the result of
\* analyze_node(n, .) on the final entry_states[n] for every analyzed node
\* n, heads included.
C30_ExitIsAnalyzedEntry == pc = "done" => \A n \in analyzed : ExitOfEntry(n)

\* C30, amended: when run returns, exit_states[n] is the result of
\* analyze_node(n, .) on the final entry_states[n] for every analyzed node
\* that is not the head of a loop; for a head, whose entry state the
\* stabilized pass replaces without analyzing the node again, the result of
\* analyze_node(n, .) on the final entry_states[n] is leq exit_states[n].
C30_ExitCoversAnalyzedEntry ==
    pc = "done" =>
        \A n \in analyzed :
            IF n \in HeadNodes
            THEN leq(analyze_node(prog, n, get_state_at_or_bottom(entry_states, n)),
                     get_state_at_or_bottom(exit_states, n))
            ELSE ExitOfEntry(n)

\* C30 witness: run has returned; the exit state of a head is not the
\* result for its final entry state, and a node that is not a head was
\* analyzed with a block that changes its state
C30_Witness ==
    /\ pc = "done"
    /\ \E n \in analyzed \cap HeadNodes : ~ExitOfEntry(n)
    /\ \E n \in analyzed \ HeadNodes :
           /\ prog[n] # 0
           /\ get_state_at_or_bottom(entry_states, n) # bottom
           /\ get_state_at_or_bottom(exit_states, n)
                  # get_state_at_or_bottom(entry_states, n)

====
